---- MODULE Spec2Model ----
(***************************************************************************)
(* Checkers rules engine and minimax search of CheckersGameLogic           *)
(* (game_logic.py): board model, move generator, move executor, evaluator, *)
(* alpha-beta search and the live game state they act on.                  *)
(*                                                                         *)
(* Conventions.  A position is a pair <<row, col>>.  A board is a function *)
(* board[row][col] over 0..7 with the cell codes of the source: 0 empty,   *)
(* 1 white pawn, 2 black pawn, 3 white king, 4 black king.  Python's None  *)
(* is the empty tuple.  Python lists are sequences in the list's order; a  *)
(* dict is the sequence of its entries in insertion order.  A method that  *)
(* reads or writes the game object takes the object's fields as a record   *)
(* `self` and returns the record it leaves behind beside its return value. *)
(***************************************************************************)
EXTENDS Integers, Sequences, FiniteSets, TLC

N == 8
None == <<>>
\* None where a player_type is expected.
NO_PLAYER == 0
WHITE == 1
BLACK == 2
Rows == 0 .. (N - 1)
Cols == 0 .. (N - 1)
Pos == Rows \X Cols

InBounds(r, c) == 0 <= r /\ r < N /\ 0 <= c /\ c < N

Other(player_type) == IF player_type = 2 THEN 1 ELSE 2

\* range(8) x range(8) in the order of the nested loops: row-major.
AllPos == [i \in 1 .. (N * N) |-> <<(i - 1) \div N, (i - 1) % N>>]

EmptyBoard == [r \in Rows |-> [c \in Cols |-> 0]]

\* A starting layout on the squares of even row + column.
_initialize_board_even_squares ==
    [r \in Rows |-> [c \in Cols |-> IF (r + c) % 2 = 0 THEN (IF r < 3 THEN 2 ELSE IF r > 4 THEN 1 ELSE 0) ELSE 0]]

_initialize_board == [r \in Rows |-> [c \in Cols |-> IF (r + c) % 2 = 1 THEN (IF r < 3 THEN 2 ELSE IF r > 4 THEN 1 ELSE 0) ELSE 0]]

(***************************************************************************)
(* Board model: ownership predicates.  The callers modelled here always    *)
(* pass player_type and board; is_move_valid's call with the defaults is   *)
(* resolved at the call.                                                   *)
(***************************************************************************)
is_player_piece(row, col, player_type, board) ==
    LET piece == board[row][col]
    IN  IF player_type = 1 THEN piece = 1 \/ piece = 3 ELSE piece = 2 \/ piece = 4

is_opponent_piece(row, col, player_type, board) ==
    LET piece == board[row][col]
    IN  IF player_type = 1 THEN piece = 2 \/ piece = 4 ELSE piece = 1 \/ piece = 3

(***************************************************************************)
(* Move generator.                                                         *)
(***************************************************************************)
\* A pawn jump over any piece, friendly ones included.
pawn_capture_over_any(r, c, dr, dc, board, player_type) ==
    IF InBounds(r + 2 * dr, c + 2 * dc) /\ board[r + dr][c + dc] # 0 /\ board[r + 2 * dr][c + 2 * dc] = 0
    THEN << <<r + 2 * dr, c + 2 * dc>> >>
    ELSE << >>

\* One pawn direction: the jump over (r+dr, c+dc) to (r+2dr, c+2dc).
pawn_capture(r, c, dr, dc, board, player_type) ==
    LET nr == r + dr
        nc == c + dc
        n2r == r + 2 * dr
        n2c == c + 2 * dc
    IN  IF InBounds(n2r, n2c) /\ is_opponent_piece(nr, nc, player_type, board) /\ board[n2r][n2c] = 0
        THEN << <<n2r, n2c>> >>
        ELSE << >>

\* A king ray that goes on past a second opponent piece.
RECURSIVE king_ray_over_many(_, _, _, _, _, _, _, _)
king_ray_over_many(r, c, dr, dc, i, found, board, player_type) ==
    LET nr == r + dr * i
        nc == c + dc * i
    IN  IF i >= 8 THEN << >>
        ELSE IF ~InBounds(nr, nc) THEN << >>
        ELSE IF board[nr][nc] = 0
             THEN (IF found THEN << <<nr, nc>> >> ELSE << >>) \o king_ray_over_many(r, c, dr, dc, i + 1, found, board, player_type)
        ELSE IF is_player_piece(nr, nc, player_type, board) THEN << >>
        ELSE king_ray_over_many(r, c, dr, dc, i + 1, TRUE, board, player_type)

\* One king ray, from step i on; found: an opponent piece was met on the ray.
RECURSIVE king_ray_captures(_, _, _, _, _, _, _, _)
king_ray_captures(r, c, dr, dc, i, found, board, player_type) ==
    LET nr == r + dr * i
        nc == c + dc * i
    IN  IF i >= 8 THEN << >>
        ELSE IF ~InBounds(nr, nc) THEN << >>
        ELSE IF board[nr][nc] = 0
             THEN (IF found THEN << <<nr, nc>> >> ELSE << >>) \o king_ray_captures(r, c, dr, dc, i + 1, found, board, player_type)
        ELSE IF is_player_piece(nr, nc, player_type, board) THEN << >>
        ELSE IF is_opponent_piece(nr, nc, player_type, board)
             THEN (IF found THEN << >> ELSE king_ray_captures(r, c, dr, dc, i + 1, TRUE, board, player_type))
        ELSE << >>

_get_captures_for_piece(r, c, board, player_type) ==
    LET piece == board[r][c]
        direction_forward == IF piece = 1 THEN -1 ELSE 1
    IN  IF piece = 0 THEN << >>
        ELSE IF piece = 1 \/ piece = 2
             THEN pawn_capture(r, c, direction_forward, -1, board, player_type) \o pawn_capture(r, c, direction_forward, 1, board, player_type)
        ELSE IF piece = 3 \/ piece = 4
             THEN king_ray_captures(r, c, -1, -1, 1, FALSE, board, player_type) \o king_ray_captures(r, c, -1, 1, 1, FALSE, board, player_type)
                  \o king_ray_captures(r, c, 1, -1, 1, FALSE, board, player_type) \o king_ray_captures(r, c, 1, 1, 1, FALSE, board, player_type)
        ELSE << >>

\* A pawn step straight ahead when dc is positive.
pawn_step_straight(r, c, direction, dc, board) ==
    IF dc > 0 /\ InBounds(r + direction, c) /\ board[r + direction][c] = 0 THEN << <<r + direction, c>> >>
    ELSE IF dc < 0 /\ InBounds(r + direction, c + dc) /\ board[r + direction][c + dc] = 0 THEN << <<r + direction, c + dc>> >>
    ELSE << >>

\* A pawn step that does not look at the target square.
pawn_step_unchecked(r, c, direction, dc, board) ==
    IF InBounds(r + direction, c + dc) THEN << <<r + direction, c + dc>> >> ELSE << >>

\* One pawn step to (r+direction, c+dc).
pawn_step(r, c, direction, dc, board) ==
    LET nr == r + direction
        nc == c + dc
    IN  IF InBounds(nr, nc) /\ board[nr][nc] = 0 THEN << <<nr, nc>> >> ELSE << >>

\* One king ray of ordinary moves, from step i on.
RECURSIVE king_ray_moves(_, _, _, _, _, _)
king_ray_moves(r, c, dr, dc, i, board) ==
    LET nr == r + dr * i
        nc == c + dc * i
    IN  IF i >= 8 THEN << >>
        ELSE IF InBounds(nr, nc)
             THEN (IF board[nr][nc] = 0 THEN << <<nr, nc>> >> \o king_ray_moves(r, c, dr, dc, i + 1, board) ELSE << >>)
        ELSE << >>

\* The moves of a piece that has no capture: a pawn's steps, a king's slides.
normal_moves(r, c, board) ==
    LET piece == board[r][c]
        direction == IF piece = 1 THEN -1 ELSE 1
    IN  IF piece = 1 \/ piece = 2
        THEN pawn_step(r, c, direction, -1, board) \o pawn_step(r, c, direction, 1, board)
        ELSE IF piece = 3 \/ piece = 4
             THEN king_ray_moves(r, c, -1, -1, 1, board) \o king_ray_moves(r, c, -1, 1, 1, board)
                  \o king_ray_moves(r, c, 1, -1, 1, board) \o king_ray_moves(r, c, 1, 1, 1, board)
        ELSE << >>

\* A result that lists the ordinary moves after the captures.
moves_beside_captures(r, c, board, current_captures) ==
    [moves |-> current_captures \o normal_moves(r, c, board), has_captures |-> current_captures # << >>]

\* The result once current_captures is known: captures first.
moves_after_captures(r, c, board, current_captures) ==
    IF current_captures # << >>
    THEN [moves |-> current_captures, has_captures |-> TRUE]
    ELSE [moves |-> normal_moves(r, c, board), has_captures |-> FALSE]

\* Returns (moves_list, is_capture_move_found_flag).
get_possible_moves(r, c, board, player_type) ==
    moves_after_captures(r, c, board, _get_captures_for_piece(r, c, board, player_type))

\* The default of the forced_capture_piece parameter: None means the live game's.
forced_piece_default(self, forced_capture_piece) ==
    IF forced_capture_piece = None THEN self.forced_capture_piece ELSE forced_capture_piece

\* The flag returned beside the dict: True with captures, else bool(all_player_moves).
has_forced_captures_flag(all_player_captures, all_player_moves) ==
    IF all_player_captures # << >> THEN TRUE ELSE all_player_moves # << >>

\* The squares the two loops do not skip, in the loops' order: the player's
\* pieces, and only the forced piece when there is one.
pieces_considered(board, player_type, forced_capture_piece) ==
    SelectSeq(AllPos, LAMBDA p : is_player_piece(p[1], p[2], player_type, board)
                                 /\ ~(forced_capture_piece # None /\ p # forced_capture_piece))

\* What get_possible_moves returned for the piece on p, with p.
moves_of_piece(p, g) == [start |-> p, ends |-> g.moves, has_captures |-> g.has_captures]

\* get_possible_moves for each of the pieces, in order.
moves_for_pieces(pieces, board, player_type) ==
    [i \in 1 .. Len(pieces) |-> moves_of_piece(pieces[i], get_possible_moves(pieces[i][1], pieces[i][2], board, player_type))]

\* A dict of the selected pieces: the sequence of its entries [start, ends]
\* in insertion order.
dict_of(selected) == [i \in 1 .. Len(selected) |-> [start |-> selected[i].start, ends |-> selected[i].ends]]

\* A result without capture priority: every piece with any move is listed,
\* capturing or not.
result_without_priority(generated) ==
    [moves |-> dict_of(SelectSeq(generated, LAMBDA e : e.ends # << >>)),
     flag |-> \E i \in 1 .. Len(generated) : generated[i].has_captures]

\* A generator without capture priority.
all_moves_without_priority(self, board, player_type, forced_capture_piece_arg) ==
    result_without_priority(moves_for_pieces(pieces_considered(board, player_type, forced_piece_default(self, forced_capture_piece_arg)),
                                             board, player_type))

\* The return statement: the captures when there are any, else the moves.
captures_or_moves(all_player_captures, all_player_moves) ==
    [moves |-> IF all_player_captures # << >> THEN all_player_captures ELSE all_player_moves,
     flag |-> has_forced_captures_flag(all_player_captures, all_player_moves)]

\* The two dicts the loops fill from what get_possible_moves returned.
result_with_priority(generated) ==
    captures_or_moves(dict_of(SelectSeq(generated, LAMBDA e : e.ends # << >> /\ e.has_captures)),
                      dict_of(SelectSeq(generated, LAMBDA e : e.ends # << >> /\ ~e.has_captures)))

\* Returns (moves_dict, flag).  board and player_type are explicit in every
\* call of the source.
get_all_possible_moves_for_player(self, board, player_type, forced_capture_piece_arg) ==
    result_with_priority(moves_for_pieces(pieces_considered(board, player_type, forced_piece_default(self, forced_capture_piece_arg)),
                                          board, player_type))

\* dict lookups on the entry sequence.
Keys(d) == {d[i].start : i \in 1 .. Len(d)}
Get(d, k) == IF k \in Keys(d) THEN (CHOOSE e \in {d[i] : i \in 1 .. Len(d)} : e.start = k).ends ELSE << >>
Range(s) == {s[i] : i \in 1 .. Len(s)}
InMap(d, start_pos, end_pos) == start_pos \in Keys(d) /\ end_pos \in Range(Get(d, start_pos))

(***************************************************************************)
(* Validation.  Returns the boolean and the message it leaves in           *)
(* self.message (unchanged when the move is valid).                        *)
(***************************************************************************)
MSG_OUT_OF_BOARD == "Ruch poza plansza."
MSG_NOT_YOUR_PIECE == "Na wybranym polu nie ma twojego pionka."
MSG_OCCUPIED == "Pole docelowe jest zajete."
MSG_SAME_PIECE == "Musisz kontynuowac bicie tym samym pionkiem!"
MSG_FORCED_NOT_CAPTURE == "Ten ruch nie jest poprawnym biciem! Wybrany pionek musi kontynuowac bicie."
MSG_MUST_CAPTURE == "Ten ruch nie jest poprawnym biciem! Musisz wykonac bicie."
MSG_INVALID == "Niepoprawny ruch. (Pamietaj o biciach, jesli sa dostepne!)"
MSG_CONTINUE == "Musisz kontynuowac bicie!"
MSG_WHITE_TURN == "Ruch bialych."
MSG_BLACK_TURN == "Ruch czarnych."
MSG_PROMOTED == "Pionek zostal promowany na damke! "
MSG_AI_NO_MOVES == "AI nie ma dostepnych ruchow."
MSG_GAME_OVER_WHITE_WINS == "Koniec gry! Biali wygrywaja! Brak ruchow dla czarnych."
MSG_GAME_OVER_BLACK_WINS == "Koniec gry! Czarni wygrywaja! Brak ruchow dla bialych."
MSG_AI_THINKING == "AI mysli..."
MSG_AI_PROBLEM == "AI napotkalo problem w znalezieniu ruchu. Sprobuj ponownie."

\* The message chosen when the move is absent from the legal-move map.
absent_message(self, start_pos, has_forced_captures) ==
    IF has_forced_captures
    THEN IF self.forced_capture_piece # None
         THEN (IF start_pos # self.forced_capture_piece THEN MSG_SAME_PIECE ELSE MSG_FORCED_NOT_CAPTURE)
         ELSE MSG_MUST_CAPTURE
    ELSE MSG_INVALID

\* A validation that stops after the chain check: the legal-move map is not
\* consulted.
is_move_valid_without_map(self, start_pos, end_pos, all_valid) ==
    LET start_r == start_pos[1]
        start_c == start_pos[2]
        end_r == end_pos[1]
        end_c == end_pos[2]
    IN  IF ~(InBounds(start_r, start_c) /\ InBounds(end_r, end_c))
        THEN [ok |-> FALSE, message |-> MSG_OUT_OF_BOARD]
        ELSE IF self.board[start_r][start_c] = 0 \/ ~is_player_piece(start_r, start_c, self.current_player, self.board)
        THEN [ok |-> FALSE, message |-> MSG_NOT_YOUR_PIECE]
        ELSE IF self.board[end_r][end_c] # 0
        THEN [ok |-> FALSE, message |-> MSG_OCCUPIED]
        ELSE IF self.forced_capture_piece # None /\ self.forced_capture_piece # start_pos
        THEN [ok |-> FALSE, message |-> MSG_SAME_PIECE]
        ELSE [ok |-> TRUE, message |-> self.message]

\* The body of is_move_valid; all_valid is the result of its call of
\* get_all_possible_moves_for_player, made only when the earlier checks pass.
is_move_valid_in(self, start_pos, end_pos, all_valid) ==
    LET start_r == start_pos[1]
        start_c == start_pos[2]
        end_r == end_pos[1]
        end_c == end_pos[2]
    IN  IF ~(InBounds(start_r, start_c) /\ InBounds(end_r, end_c))
        THEN [ok |-> FALSE, message |-> MSG_OUT_OF_BOARD]
        ELSE IF self.board[start_r][start_c] = 0 \/ ~is_player_piece(start_r, start_c, self.current_player, self.board)
        THEN [ok |-> FALSE, message |-> MSG_NOT_YOUR_PIECE]
        ELSE IF self.board[end_r][end_c] # 0
        THEN [ok |-> FALSE, message |-> MSG_OCCUPIED]
        ELSE IF self.forced_capture_piece # None /\ self.forced_capture_piece # start_pos
        THEN [ok |-> FALSE, message |-> MSG_SAME_PIECE]
        ELSE IF ~InMap(all_valid.moves, start_pos, end_pos)
        THEN [ok |-> FALSE, message |-> absent_message(self, start_pos, all_valid.flag)]
        ELSE [ok |-> TRUE, message |-> self.message]

is_move_valid(self, start_pos, end_pos) ==
    is_move_valid_in(self, start_pos, end_pos, get_all_possible_moves_for_player(self, self.board, self.current_player, self.forced_capture_piece))

(***************************************************************************)
(* Move executor.                                                          *)
(***************************************************************************)
Abs(x) == IF x < 0 THEN -x ELSE x
Sign(x) == IF x > 0 THEN 1 ELSE IF x < 0 THEN -1 ELSE 0

\* temp_board = board: the same object, so writes reach the input board.
alias_board(board) == [cells |-> board, shared |-> TRUE]

\* temp_board = [row[:] for row in board]: a new object holding the same
\* cells.  shared tells whether writes to temp_board reach the input board.
copy_board(board) == [cells |-> board, shared |-> FALSE]

\* A walk that looks for the mover's own pieces instead of the opponent's.
RECURSIVE find_captured_own(_, _, _, _, _, _, _, _)
find_captured_own(current_r, current_c, dr, dc, end_r, end_c, player_type, temp_board) ==
    LET nr == current_r + dr
        nc == current_c + dc
    IN  IF nr = end_r /\ nc = end_c THEN None
        ELSE IF ~InBounds(nr, nc) THEN None
        ELSE IF is_player_piece(nr, nc, player_type, temp_board) THEN <<nr, nc>>
        ELSE IF temp_board[nr][nc] # 0 THEN None
        ELSE find_captured_own(nr, nc, dr, dc, end_r, end_c, player_type, temp_board)

\* A walk that takes the square just before the landing square, whatever it
\* holds.
find_captured_before_end(current_r, current_c, dr, dc, end_r, end_c, player_type, temp_board) ==
    <<end_r - dr, end_c - dc>>

\* The walk from start towards end (the while loop): the position of the piece
\* to remove, or None.
RECURSIVE find_captured(_, _, _, _, _, _, _, _)
find_captured(current_r, current_c, dr, dc, end_r, end_c, player_type, temp_board) ==
    LET nr == current_r + dr
        nc == current_c + dc
    IN  IF nr = end_r /\ nc = end_c THEN None
        ELSE IF ~InBounds(nr, nc) THEN None
        ELSE IF is_opponent_piece(nr, nc, player_type, temp_board) THEN <<nr, nc>>
        ELSE IF temp_board[nr][nc] # 0 THEN None
        ELSE find_captured(nr, nc, dr, dc, end_r, end_c, player_type, temp_board)

\* A promotion check that promotes nothing.
never_promoted(temp_board, end_r, end_c) == 0

\* promoted_from_pawn: 1 or 2 when the piece on the landing square is promoted.
promoted_from_pawn(temp_board, end_r, end_c) ==
    IF temp_board[end_r][end_c] = 1 /\ end_r = 0 THEN 1
    ELSE IF temp_board[end_r][end_c] = 2 /\ end_r = 7 THEN 2
    ELSE 0

\* The board after the promotion check.
promote(temp_board, end_r, end_c) ==
    IF promoted_from_pawn(temp_board, end_r, end_c) = 1 THEN [temp_board EXCEPT ![end_r][end_c] = 3]
    ELSE IF promoted_from_pawn(temp_board, end_r, end_c) = 2 THEN [temp_board EXCEPT ![end_r][end_c] = 4]
    ELSE temp_board

\* A continuation that does not look for further captures: every capture
\* keeps the turn.
continuation_after_any_capture(is_capture, end_r, end_c, temp_board, player_type) ==
    IF is_capture THEN <<end_r, end_c>> ELSE None

\* A continuation decided with pawn rules for a piece on the far row of its
\* colour, as if the promotion came after it.
continuation_before_promotion(is_capture, end_r, end_c, temp_board, player_type) ==
    IF is_capture /\ end_r # (IF player_type = 1 THEN 0 ELSE 7)
       /\ _get_captures_for_piece(end_r, end_c, temp_board, player_type) # << >>
    THEN <<end_r, end_c>>
    ELSE None

\* new_forced_capture_piece: the landing square when the capture can go on.
continuation(is_capture, end_r, end_c, temp_board, player_type) ==
    IF is_capture /\ _get_captures_for_piece(end_r, end_c, temp_board, player_type) # << >>
    THEN <<end_r, end_c>>
    ELSE None

\* A commit that always passes the turn, chain or not.
commit_always_flips(self, temp_board, is_capture, new_forced_capture_piece, promoted, player_type) ==
    LET turn == Other(player_type)
        base == IF is_capture /\ new_forced_capture_piece # None THEN MSG_CONTINUE
                ELSE IF turn = 1 THEN MSG_WHITE_TURN ELSE MSG_BLACK_TURN
    IN  [self EXCEPT !.board = temp_board,
                     !.forced_capture_piece = IF is_capture /\ new_forced_capture_piece # None THEN new_forced_capture_piece ELSE None,
                     !.current_player = turn,
                     !.message = IF promoted THEN MSG_PROMOTED \o base ELSE base]

\* A commit that never passes the turn.
commit_keeps_turn(self, temp_board, is_capture, new_forced_capture_piece, promoted, player_type) ==
    LET base == IF is_capture /\ new_forced_capture_piece # None THEN MSG_CONTINUE
                ELSE IF self.current_player = 1 THEN MSG_WHITE_TURN ELSE MSG_BLACK_TURN
    IN  [self EXCEPT !.board = temp_board,
                     !.forced_capture_piece = IF is_capture /\ new_forced_capture_piece # None THEN new_forced_capture_piece ELSE None,
                     !.message = IF promoted THEN MSG_PROMOTED \o base ELSE base]

\* The live game after the move (the is_main_game_move branch): while the
\* capture goes on current_player is not assigned.
commit(self, temp_board, is_capture, new_forced_capture_piece, promoted, player_type) ==
    LET turn == IF is_capture /\ new_forced_capture_piece # None THEN self.current_player ELSE Other(player_type)
        base == IF is_capture /\ new_forced_capture_piece # None THEN MSG_CONTINUE
                ELSE IF turn = 1 THEN MSG_WHITE_TURN ELSE MSG_BLACK_TURN
    IN  [self EXCEPT !.board = temp_board,
                     !.forced_capture_piece = IF is_capture /\ new_forced_capture_piece # None THEN new_forced_capture_piece ELSE None,
                     !.current_player = turn,
                     !.message = IF promoted THEN MSG_PROMOTED \o base ELSE base]

\* The live game after a simulated move (the else branch): not written.
simulate(self, temp_board, is_capture, new_forced_capture_piece, promoted, player_type) == self

\* board_arg = None: the live move, on self.board.  player_arg = NO_PLAYER:
\* the live current_player.  Result: self, the game object afterwards; input, the
\* cells of the input board afterwards; ret, True for a live move and
\* (new_board, next_player_type, new_forced_capture_piece, is_capture) for a
\* simulated one (both given as one record).
make_move(self, start_pos, end_pos, board_arg, player_arg) ==
    LET is_main_game_move == board_arg = None
        board_in == IF board_arg = None THEN self.board ELSE board_arg
        copy == copy_board(board_in)
        current_player_for_move == IF player_arg = NO_PLAYER THEN self.current_player ELSE player_arg
        start_r == start_pos[1]
        start_c == start_pos[2]
        end_r == end_pos[1]
        end_c == end_pos[2]
        piece_type == copy.cells[start_r][start_c]
        dr_abs == Abs(end_r - start_r)
        dc_abs == Abs(end_c - start_c)
        dr == Sign(end_r - start_r)
        dc == Sign(end_c - start_c)
        jump == dr_abs > 1 \/ dc_abs > 1
        captured == IF jump THEN find_captured(start_r, start_c, dr, dc, end_r, end_c, current_player_for_move, copy.cells) ELSE None
        is_capture == jump /\ captured # None
        removed == IF captured # None THEN [copy.cells EXCEPT ![captured[1]][captured[2]] = 0] ELSE copy.cells
        placed == [removed EXCEPT ![end_r][end_c] = piece_type]
        cleared == [placed EXCEPT ![start_r][start_c] = 0]
        temp_board == promote(cleared, end_r, end_c)
        promoted == promoted_from_pawn(cleared, end_r, end_c) # 0
        new_forced_capture_piece == continuation(is_capture, end_r, end_c, temp_board, current_player_for_move)
        next_player_type == IF ~is_capture \/ new_forced_capture_piece = None THEN Other(current_player_for_move) ELSE current_player_for_move
        input_after == IF copy.shared THEN temp_board ELSE board_in
    IN  [self |-> IF is_main_game_move
                  THEN commit(self, temp_board, is_capture, new_forced_capture_piece, promoted, current_player_for_move)
                  ELSE simulate(self, temp_board, is_capture, new_forced_capture_piece, promoted, current_player_for_move),
         input |-> input_after,
         new_board |-> temp_board,
         next_player_type |-> next_player_type,
         new_forced_capture_piece |-> new_forced_capture_piece,
         is_capture |-> is_capture]

(***************************************************************************)
(* Evaluator.                                                              *)
(***************************************************************************)
\* A cell score that counts the rows of the opponent's pawns in the
\* perspective player's direction.
cell_score_one_direction(piece, r, current_ai_player_type) ==
    IF piece = 0 THEN 0
    ELSE IF (piece = 1 \/ piece = 3) = (current_ai_player_type = 1)
    THEN (IF piece \in {1, 2} THEN 10 + (IF current_ai_player_type = 1 THEN 7 - r ELSE r) ELSE 30)
    ELSE 0 - (IF piece \in {1, 2} THEN 10 + (IF current_ai_player_type = 1 THEN 7 - r ELSE r) ELSE 30)

\* A cell score that gives kings the same row bonus as pawns.
cell_score_kings_advance(piece, r, current_ai_player_type) ==
    IF piece = 0 THEN 0
    ELSE IF (piece = 1 \/ piece = 3) = (current_ai_player_type = 1)
    THEN (IF piece \in {1, 2} THEN 10 ELSE 30) + (IF current_ai_player_type = 1 THEN 7 - r ELSE r)
    ELSE 0 - (IF piece \in {1, 2} THEN 10 ELSE 30) - (IF current_ai_player_type = 1 THEN r ELSE 7 - r)

\* The contribution of one cell to the score.
cell_score(piece, r, current_ai_player_type) ==
    LET opponent_player_type == Other(current_ai_player_type)
        own == (current_ai_player_type = 1 /\ (piece = 1 \/ piece = 3)) \/ (current_ai_player_type = 2 /\ (piece = 2 \/ piece = 4))
        opp == (opponent_player_type = 1 /\ (piece = 1 \/ piece = 3)) \/ (opponent_player_type = 2 /\ (piece = 2 \/ piece = 4))
    IN  IF piece = 0 THEN 0
        ELSE IF own
             THEN (IF piece = 1 \/ piece = 2 THEN 10 + (IF current_ai_player_type = 1 THEN 7 - r ELSE r)
                   ELSE IF piece = 3 \/ piece = 4 THEN 30 ELSE 0)
        ELSE IF opp
             THEN (IF piece = 1 \/ piece = 2 THEN -10 - (IF opponent_player_type = 1 THEN 7 - r ELSE r)
                   ELSE IF piece = 3 \/ piece = 4 THEN -30 ELSE 0)
        ELSE 0

\* The inner loop: the score of one row.
row_score(r, board, current_ai_player_type) ==
    cell_score(board[r][0], r, current_ai_player_type) + cell_score(board[r][1], r, current_ai_player_type)
    + cell_score(board[r][2], r, current_ai_player_type) + cell_score(board[r][3], r, current_ai_player_type)
    + cell_score(board[r][4], r, current_ai_player_type) + cell_score(board[r][5], r, current_ai_player_type)
    + cell_score(board[r][6], r, current_ai_player_type) + cell_score(board[r][7], r, current_ai_player_type)

\* The outer loop: the sum over the rows.
_evaluate_board(board, current_ai_player_type) ==
    row_score(0, board, current_ai_player_type) + row_score(1, board, current_ai_player_type)
    + row_score(2, board, current_ai_player_type) + row_score(3, board, current_ai_player_type)
    + row_score(4, board, current_ai_player_type) + row_score(5, board, current_ai_player_type)
    + row_score(6, board, current_ai_player_type) + row_score(7, board, current_ai_player_type)

(***************************************************************************)
(* Game over.  board_arg = None is the call on the live board (board is    *)
(* self.board); the boards the search passes are copies made by make_move, *)
(* never the live object, so the message is written for the live call only.*)
(***************************************************************************)
game_over_result(self, live, player_type, over) ==
    [ret |-> over,
     self |-> IF over /\ live
              THEN [self EXCEPT !.message = IF Other(player_type) = 1 THEN MSG_GAME_OVER_WHITE_WINS ELSE MSG_GAME_OVER_BLACK_WINS]
              ELSE self]

\* The test with either condition sufficing.
game_over_test_either(self, live, player_type, forced_capture_piece, has_any_moves) ==
    game_over_result(self, live, player_type, ~has_any_moves \/ forced_capture_piece = None)

\* has_any_moves is the flag get_all_possible_moves_for_player returned.
game_over_test(self, live, player_type, forced_capture_piece, has_any_moves) ==
    game_over_result(self, live, player_type, ~has_any_moves /\ forced_capture_piece = None)

check_game_over(self, board_arg, player_arg, forced_arg) ==
    game_over_test(self, board_arg = None,
                   IF player_arg = NO_PLAYER THEN self.current_player ELSE player_arg,
                   forced_piece_default(self, forced_arg),
                   get_all_possible_moves_for_player(self, IF board_arg = None THEN self.board ELSE board_arg,
                                                     IF player_arg = NO_PLAYER THEN self.current_player ELSE player_arg,
                                                     forced_piece_default(self, forced_arg)).flag)

(***************************************************************************)
(* Search.                                                                 *)
(***************************************************************************)
\* float('inf'): above every score (at most 12 * 37 in absolute value).
INF == 100000

Max(a, b) == IF a >= b THEN a ELSE b
Min(a, b) == IF a <= b THEN a ELSE b

\* dict.items() with the inner loop over the destinations: the (start, end)
\* pairs in the order the two nested loops visit them.
RECURSIVE Flatten(_)
Flatten(d) ==
    IF d = << >> THEN << >>
    ELSE [j \in 1 .. Len(d[1].ends) |-> <<d[1].start, d[1].ends[j]>>] \o Flatten(Tail(d))

\* The cut-off test with the comparison turned round.
cut_off_inverted(alpha, beta) == alpha <= beta

\* The cut-off test of both loops.
cut_off(alpha, beta) == beta <= alpha

\* A recursion that goes one ply down after every simulated move.
child_depth_always_less(depth, is_capture, new_forced_capture) == depth - 1

\* The depth and side of the recursion after a simulated move.
child_depth(depth, is_capture, new_forced_capture) == IF is_capture /\ new_forced_capture # None THEN depth ELSE depth - 1
child_maximizing(maximizing_player, is_capture, new_forced_capture) ==
    IF is_capture /\ new_forced_capture # None THEN maximizing_player ELSE ~maximizing_player
child_forced(is_capture, new_forced_capture) == IF is_capture /\ new_forced_capture # None THEN new_forced_capture ELSE None

RECURSIVE _minimax(_, _, _, _, _, _, _, _)
RECURSIVE minimax_loop(_, _, _, _, _, _, _)

\* The loop's variables after a pass: at holds them before the pass, input is
\* the node's board as make_move left it and child is what the recursive call
\* returned.  score is max_eval or min_eval, and break tells that the cut-off
\* test ended both loops (they test the same condition with nothing in
\* between).
minimax_update(maximizing_player, at, input, child) ==
    LET alpha_after == IF maximizing_player THEN Max(at.alpha, child.score) ELSE at.alpha
        beta_after == IF maximizing_player THEN at.beta ELSE Min(at.beta, child.score)
    IN  [self |-> child.self, board |-> input,
         score |-> IF maximizing_player THEN Max(at.score, child.score) ELSE Min(at.score, child.score),
         alpha |-> alpha_after, beta |-> beta_after, break |-> cut_off(alpha_after, beta_after)]

\* The recursive call made for the simulated move mv, and the update after it.
minimax_recurse(depth, maximizing_player, current_ai_player_type, at, mv) ==
    minimax_update(maximizing_player, at, mv.input,
                   _minimax(mv.self, mv.new_board,
                            child_depth(depth, mv.is_capture, mv.new_forced_capture_piece),
                            child_maximizing(maximizing_player, mv.is_capture, mv.new_forced_capture_piece),
                            at.alpha, at.beta, current_ai_player_type,
                            child_forced(mv.is_capture, mv.new_forced_capture_piece)))

\* One pass of the loop body, for the (start, end) pair move.
minimax_step(depth, maximizing_player, current_ai_player_type, sim_player_type, move, at) ==
    minimax_recurse(depth, maximizing_player, current_ai_player_type, at,
                    make_move(at.self, move[1], move[2], at.board, sim_player_type))

\* The passes of the loop from pair lo on, in order, none after a break.
minimax_loop(depth, maximizing_player, current_ai_player_type, sim_player_type, pairs, lo, at) ==
    IF lo > Len(pairs) \/ at.break THEN at
    ELSE minimax_loop(depth, maximizing_player, current_ai_player_type, sim_player_type, pairs, lo + 1,
                      minimax_step(depth, maximizing_player, current_ai_player_type, sim_player_type, pairs[lo], at))

\* The node once it has moves to try: the two loops.
minimax_moves(self, board, depth, maximizing_player, alpha, beta, current_ai_player_type, sim_player_type, possible_moves_dict) ==
    IF possible_moves_dict = << >>
    THEN [score |-> _evaluate_board(board, current_ai_player_type), self |-> self, board |-> board]
    ELSE minimax_loop(depth, maximizing_player, current_ai_player_type, sim_player_type, Flatten(possible_moves_dict), 1,
                      [self |-> self, board |-> board, score |-> IF maximizing_player THEN -INF ELSE INF,
                       alpha |-> alpha, beta |-> beta, break |-> FALSE])

\* The node after its game-over test: over is what check_game_over returned.
minimax_node(board, depth, maximizing_player, alpha, beta, current_ai_player_type, original_forced_capture_piece, sim_player_type, over) ==
    IF over.ret
    THEN [score |-> _evaluate_board(board, current_ai_player_type), self |-> over.self, board |-> board]
    ELSE minimax_moves(over.self, board, depth, maximizing_player, alpha, beta, current_ai_player_type, sim_player_type,
                       get_all_possible_moves_for_player(over.self, board, sim_player_type, original_forced_capture_piece).moves)

\* Returns the score, and the game object and the node's board as the call
\* leaves them.
_minimax(self, board, depth, maximizing_player, alpha, beta, current_ai_player_type, original_forced_capture_piece) ==
    LET sim_player_type == IF maximizing_player THEN current_ai_player_type ELSE Other(current_ai_player_type)
    IN  IF depth = 0
        THEN [score |-> _evaluate_board(board, current_ai_player_type), self |-> self, board |-> board]
        ELSE minimax_node(board, depth, maximizing_player, alpha, beta, current_ai_player_type, original_forced_capture_piece,
                          sim_player_type, check_game_over(self, board, sim_player_type, original_forced_capture_piece))

\* sorted() of a collection of positions: tuple order is row-major order.
Sorted(S) == SelectSeq(AllPos, LAMBDA p : p \in S)

\* moves_to_evaluate.
moves_to_evaluate(self, possible_moves, has_forced_captures) ==
    IF has_forced_captures /\ self.forced_capture_piece # None /\ self.forced_capture_piece \in Keys(possible_moves)
    THEN << [start |-> self.forced_capture_piece, ends |-> Get(possible_moves, self.forced_capture_piece)] >>
    ELSE possible_moves

\* The candidate (start, end) pairs in the order of the two sorted loops.
RECURSIVE SortedPairs(_, _)
SortedPairs(d, starts) ==
    IF starts = << >> THEN << >>
    ELSE LET ends == Sorted(Range(Get(d, Head(starts))))
         IN  [j \in 1 .. Len(ends) |-> <<Head(starts), ends[j]>>] \o SortedPairs(d, Tail(starts))

\* The comparison of candidates turned round.
better_inverted(eval, best_eval) == eval < best_eval

\* The comparison of candidates that also lets an equal score replace.
better_or_equal(eval, best_eval) == eval >= best_eval

\* Whether a candidate replaces the best one so far.
better(eval, best_eval) == eval > best_eval

\* The arguments of the _minimax call made for a simulated candidate mv: the
\* same side at full depth while its capture goes on, else the opponent one
\* ply down.
root_call(self, mv) ==
    IF mv.is_capture /\ mv.new_forced_capture_piece # None
    THEN [board |-> mv.new_board, depth |-> self.ai_search_depth, maximizing_player |-> TRUE, forced |-> mv.new_forced_capture_piece]
    ELSE [board |-> mv.new_board, depth |-> self.ai_search_depth - 1, maximizing_player |-> FALSE, forced |-> None]

\* The _minimax call with the arguments rc on the game object self.
root_search(self, current_ai_player_type, rc) ==
    _minimax(self, rc.board, rc.depth, rc.maximizing_player, -INF, INF, current_ai_player_type, rc.forced)

RECURSIVE ai_loop(_, _, _, _, _)

\* The end of a pass of get_ai_move's loop: child is what _minimax returned
\* for the i-th candidate.
ai_pick(moves, i, best_eval, best_move, child) ==
    IF better(child.score, best_eval)
    THEN ai_loop(child.self, moves, i + 1, child.score, <<moves[i][1], moves[i][2]>>)
    ELSE ai_loop(child.self, moves, i + 1, best_eval, best_move)

\* A pass of the loop after the i-th candidate was simulated as mv.  The board
\* passed to make_move is self.board itself: what the call leaves in its input
\* is what the live board holds.
ai_candidate(self, moves, i, best_eval, best_move, mv) ==
    ai_pick(moves, i, best_eval, best_move,
            root_search([mv.self EXCEPT !.board = mv.input], self.current_player, root_call(self, mv)))

\* The loop of get_ai_move from the i-th candidate on.
ai_loop(self, moves, i, best_eval, best_move) ==
    IF i > Len(moves) THEN [ret |-> best_move, self |-> self]
    ELSE ai_candidate(self, moves, i, best_eval, best_move,
                      make_move(self, moves[i][1], moves[i][2], self.board, self.current_player))

\* The candidates in the order get_ai_move evaluates them, given what
\* get_all_possible_moves_for_player returned.
candidates_of(self, possible) ==
    SortedPairs(moves_to_evaluate(self, possible.moves, possible.flag),
                Sorted(Keys(moves_to_evaluate(self, possible.moves, possible.flag))))

\* The candidates of get_ai_move in the current game.
candidates(self) ==
    candidates_of(self, get_all_possible_moves_for_player(self, self.board, self.current_player, self.forced_capture_piece))

\* get_ai_move after its call of get_all_possible_moves_for_player.
ai_choose(self, possible) ==
    IF possible.moves = << >>
    THEN [ret |-> <<None, None>>, self |-> [self EXCEPT !.message = MSG_AI_NO_MOVES]]
    ELSE ai_loop(self, candidates_of(self, possible), 1, -INF, None)

\* Returns (start_pos, end_pos), or (None, None) when there is no move.
get_ai_move(self) ==
    ai_choose(self, get_all_possible_moves_for_player(self, self.board, self.current_player, self.forced_capture_piece))

(***************************************************************************)
(* The squares at which a call indexes the board, directly or through      *)
(* is_player_piece and is_opponent_piece, in the order of the code's tests *)
(* (`and` and `or` stop at the first operand that decides).                *)
(***************************************************************************)
\* A pawn direction that looks at the jumped square before the bounds test.
pawn_capture_reads_unguarded(r, c, dr, dc, board, player_type) ==
    {<<r + dr, c + dc>>} \cup (IF InBounds(r + 2 * dr, c + 2 * dc) THEN {<<r + 2 * dr, c + 2 * dc>>} ELSE {})

\* One pawn direction: the bounds of the landing square are tested first,
\* then the jumped square, then the landing square.
pawn_capture_reads(r, c, dr, dc, board, player_type) ==
    IF ~InBounds(r + 2 * dr, c + 2 * dc) THEN {}
    ELSE IF is_opponent_piece(r + dr, c + dc, player_type, board) THEN {<<r + dr, c + dc>>, <<r + 2 * dr, c + 2 * dc>>}
    ELSE {<<r + dr, c + dc>>}

\* One king ray of captures, from step i on.
RECURSIVE king_ray_reads(_, _, _, _, _, _, _, _)
king_ray_reads(r, c, dr, dc, i, found, board, player_type) ==
    LET nr == r + dr * i
        nc == c + dc * i
    IN  IF i >= 8 THEN {}
        ELSE IF ~InBounds(nr, nc) THEN {}
        ELSE IF board[nr][nc] = 0
             THEN {<<nr, nc>>} \cup king_ray_reads(r, c, dr, dc, i + 1, found, board, player_type)
        ELSE IF is_player_piece(nr, nc, player_type, board) THEN {<<nr, nc>>}
        ELSE IF is_opponent_piece(nr, nc, player_type, board) /\ ~found
             THEN {<<nr, nc>>} \cup king_ray_reads(r, c, dr, dc, i + 1, TRUE, board, player_type)
        ELSE {<<nr, nc>>}

\* _get_captures_for_piece.
captures_reads(r, c, board, player_type) ==
    {<<r, c>>} \cup
    (IF board[r][c] = 1 \/ board[r][c] = 2
     THEN pawn_capture_reads(r, c, IF board[r][c] = 1 THEN 0 - 1 ELSE 1, 0 - 1, board, player_type)
          \cup pawn_capture_reads(r, c, IF board[r][c] = 1 THEN 0 - 1 ELSE 1, 1, board, player_type)
     ELSE IF board[r][c] = 3 \/ board[r][c] = 4
     THEN king_ray_reads(r, c, 0 - 1, 0 - 1, 1, FALSE, board, player_type) \cup king_ray_reads(r, c, 0 - 1, 1, 1, FALSE, board, player_type)
          \cup king_ray_reads(r, c, 1, 0 - 1, 1, FALSE, board, player_type) \cup king_ray_reads(r, c, 1, 1, 1, FALSE, board, player_type)
     ELSE {})

\* One pawn step.
pawn_step_reads(r, c, direction, dc) ==
    IF InBounds(r + direction, c + dc) THEN {<<r + direction, c + dc>>} ELSE {}

\* One king ray of ordinary moves, from step i on.
RECURSIVE king_ray_moves_reads(_, _, _, _, _, _)
king_ray_moves_reads(r, c, dr, dc, i, board) ==
    LET nr == r + dr * i
        nc == c + dc * i
    IN  IF i >= 8 THEN {}
        ELSE IF ~InBounds(nr, nc) THEN {}
        ELSE IF board[nr][nc] = 0 THEN {<<nr, nc>>} \cup king_ray_moves_reads(r, c, dr, dc, i + 1, board)
        ELSE {<<nr, nc>>}

\* The ordinary moves of get_possible_moves.
normal_moves_reads(r, c, board) ==
    IF board[r][c] = 1 \/ board[r][c] = 2
    THEN pawn_step_reads(r, c, IF board[r][c] = 1 THEN 0 - 1 ELSE 1, 0 - 1)
         \cup pawn_step_reads(r, c, IF board[r][c] = 1 THEN 0 - 1 ELSE 1, 1)
    ELSE IF board[r][c] = 3 \/ board[r][c] = 4
    THEN king_ray_moves_reads(r, c, 0 - 1, 0 - 1, 1, board) \cup king_ray_moves_reads(r, c, 0 - 1, 1, 1, board)
         \cup king_ray_moves_reads(r, c, 1, 0 - 1, 1, board) \cup king_ray_moves_reads(r, c, 1, 1, 1, board)
    ELSE {}

\* get_possible_moves: the captures, and the ordinary moves when there is
\* no capture.
possible_moves_reads(r, c, board, player_type) ==
    captures_reads(r, c, board, player_type)
    \cup (IF _get_captures_for_piece(r, c, board, player_type) = << >> THEN normal_moves_reads(r, c, board) ELSE {})

\* The walk of make_move from the start towards the end.
RECURSIVE walk_reads(_, _, _, _, _, _, _, _)
walk_reads(current_r, current_c, dr, dc, end_r, end_c, player_type, temp_board) ==
    LET nr == current_r + dr
        nc == current_c + dc
    IN  IF nr = end_r /\ nc = end_c THEN {}
        ELSE IF ~InBounds(nr, nc) THEN {}
        ELSE IF is_opponent_piece(nr, nc, player_type, temp_board) THEN {<<nr, nc>>}
        ELSE IF temp_board[nr][nc] # 0 THEN {<<nr, nc>>}
        ELSE {<<nr, nc>>} \cup walk_reads(nr, nc, dr, dc, end_r, end_c, player_type, temp_board)

\* make_move, whose result is mv: the start and end squares, the walk of a
\* move longer than one square, and the look for further captures after a
\* capture.
make_move_reads(start_pos, end_pos, board, player_type, mv) ==
    {start_pos, end_pos}
    \cup (IF Abs(end_pos[1] - start_pos[1]) > 1 \/ Abs(end_pos[2] - start_pos[2]) > 1
          THEN walk_reads(start_pos[1], start_pos[2], Sign(end_pos[1] - start_pos[1]), Sign(end_pos[2] - start_pos[2]),
                          end_pos[1], end_pos[2], player_type, board)
          ELSE {})
    \cup (IF mv.is_capture THEN captures_reads(end_pos[1], end_pos[2], mv.new_board, player_type) ELSE {})

(***************************************************************************)
(* The live game.                                                          *)
(***************************************************************************)
VARIABLES board, current_player, forced_capture_piece, message, ai_difficulty, ai_search_depth, player_color, ai_color, selected_piece_pos, last, moves, gui

vars == <<board, current_player, forced_capture_piece, message, ai_difficulty, ai_search_depth, player_color, ai_color, selected_piece_pos, last, moves, gui>>

\* The fields of the game object the rules and the search read or write.
Self == [board |-> board, current_player |-> current_player, forced_capture_piece |-> forced_capture_piece,
         message |-> message, ai_search_depth |-> ai_search_depth]

\* The fields a move or a search may not touch unless it commits a move.
Core(self) == [board |-> self.board, current_player |-> self.current_player, forced_capture_piece |-> self.forced_capture_piece]

DIFFICULTY_EASY == "Latwy"
DIFFICULTY_MEDIUM == "Sredni"
DIFFICULTY_HARD == "Trudny"

\* A depth lookup whose default is the shallowest depth.
search_depth_default_easy(difficulty) ==
    IF difficulty = DIFFICULTY_EASY THEN 1
    ELSE IF difficulty = DIFFICULTY_MEDIUM THEN 3
    ELSE IF difficulty = DIFFICULTY_HARD THEN 5
    ELSE 1

\* AI_SEARCH_DEPTH_MAP.get(ai_difficulty, 3)
search_depth(difficulty) ==
    IF difficulty = DIFFICULTY_EASY THEN 1
    ELSE IF difficulty = DIFFICULTY_MEDIUM THEN 3
    ELSE IF difficulty = DIFFICULTY_HARD THEN 5
    ELSE 3

\* An AI that always plays Black.
ai_always_black(color) == 2

\* The opposite color.
ai_color_of(color) == IF color = 1 THEN 2 ELSE 1

\* CheckersGameGUI.__init__: nothing is selected, the ai_timer is not
\* running and no delayed call is waiting.  pc is where make_ai_move stands
\* (it hands control to the event loop twice before it returns), chosen the
\* move it holds in ai_start_pos and ai_end_pos, shots the calls of
\* _execute_ai_move_on_gui that QTimer.singleShot has scheduled, oldest
\* first, and game the number of games started with start_new_game.
IdleGUI == [selected_square |-> None, ai_timer |-> FALSE, pc |-> "idle", chosen |-> None, shots |-> << >>, game |-> 0]

\* __init__: the game object after construction.
NewGame(difficulty, color) ==
    /\ ai_difficulty = difficulty
    /\ ai_search_depth = search_depth(difficulty)
    /\ player_color = color
    /\ ai_color = ai_color_of(color)
    /\ board = _initialize_board
    /\ current_player = 1
    /\ message = MSG_WHITE_TURN
    /\ selected_piece_pos = None
    /\ forced_capture_piece = None

\* The whole game object.
Game ==
    [ai_difficulty |-> ai_difficulty, ai_search_depth |-> ai_search_depth, player_color |-> player_color,
     ai_color |-> ai_color, board |-> board, current_player |-> current_player, message |-> message,
     selected_piece_pos |-> selected_piece_pos, forced_capture_piece |-> forced_capture_piece]

\* A reset that leaves the turn with whoever had it.
reset_game_keeps_turn(game, difficulty, color) ==
    [game EXCEPT !.ai_difficulty = difficulty, !.ai_search_depth = search_depth(difficulty),
                 !.player_color = color, !.ai_color = ai_color_of(color),
                 !.board = _initialize_board, !.message = MSG_WHITE_TURN,
                 !.selected_piece_pos = None, !.forced_capture_piece = None]

\* reset_game: the game object game after the call; every field is assigned.
reset_game(game, difficulty, color) ==
    [game EXCEPT !.ai_difficulty = difficulty, !.ai_search_depth = search_depth(difficulty),
                 !.player_color = color, !.ai_color = ai_color_of(color),
                 !.board = _initialize_board, !.current_player = 1, !.message = MSG_WHITE_TURN,
                 !.selected_piece_pos = None, !.forced_capture_piece = None]

\* Bound on the number of committed moves since the game was started.
MaxMoves == 2

\* Coordinates a caller may pass: the board's and one beyond each edge.
Coords == (0 - 1) .. N
Probes == Coords \X Coords

\* A board written row by row, row 0 first.
BoardOf(rows) == [r \in Rows |-> [c \in Cols |-> rows[r + 1][c + 1]]]

\* Games in progress: positions reached from the new game by moves that
\* is_move_valid accepted (play-outs of game_logic.py), each at the start of
\* a turn, with the difficulty and colour the game was constructed with.
MidGames ==
    << [board |-> BoardOf(<< <<0, 0, 0, 3, 0, 2, 0, 0>>,
                           <<0, 0, 0, 0, 0, 0, 2, 0>>,
                           <<0, 0, 0, 1, 0, 0, 0, 0>>,
                           <<0, 0, 0, 0, 0, 0, 0, 0>>,
                           <<0, 0, 0, 0, 0, 2, 0, 0>>,
                           <<0, 0, 1, 0, 0, 0, 0, 0>>,
                           <<0, 1, 0, 0, 0, 0, 0, 1>>,
                           <<0, 0, 0, 0, 0, 0, 1, 0>> >>),
        current_player |-> 2, difficulty |-> DIFFICULTY_EASY, color |-> 1],
       [board |-> BoardOf(<< <<0, 0, 0, 0, 0, 0, 0, 0>>,
                           <<0, 0, 0, 0, 0, 0, 2, 0>>,
                           <<0, 2, 0, 0, 0, 1, 0, 1>>,
                           <<0, 0, 2, 0, 0, 0, 0, 0>>,
                           <<0, 0, 0, 0, 0, 0, 0, 0>>,
                           <<0, 0, 2, 0, 0, 0, 0, 0>>,
                           <<0, 0, 0, 0, 0, 0, 0, 0>>,
                           <<0, 0, 0, 0, 0, 0, 0, 0>> >>),
        current_player |-> 1, difficulty |-> DIFFICULTY_MEDIUM, color |-> 2],
       [board |-> BoardOf(<< <<0, 0, 0, 0, 0, 0, 0, 0>>,
                           <<0, 0, 0, 0, 0, 0, 0, 0>>,
                           <<0, 1, 0, 0, 0, 0, 0, 0>>,
                           <<0, 0, 0, 0, 0, 0, 0, 0>>,
                           <<0, 0, 0, 0, 0, 4, 0, 0>>,
                           <<0, 0, 0, 0, 0, 0, 0, 0>>,
                           <<0, 0, 0, 2, 0, 0, 0, 0>>,
                           <<0, 0, 0, 0, 0, 0, 0, 0>> >>),
        current_player |-> 1, difficulty |-> DIFFICULTY_MEDIUM, color |-> 1],
       [board |-> BoardOf(<< <<0, 0, 0, 0, 0, 2, 0, 0>>,
                           <<0, 0, 0, 0, 0, 0, 0, 0>>,
                           <<0, 0, 0, 0, 0, 0, 0, 1>>,
                           <<0, 0, 0, 0, 0, 0, 0, 0>>,
                           <<0, 2, 0, 0, 0, 0, 0, 0>>,
                           <<0, 0, 0, 0, 0, 0, 0, 0>>,
                           <<0, 0, 0, 0, 0, 0, 0, 1>>,
                           <<3, 0, 0, 0, 0, 0, 0, 0>> >>),
        current_player |-> 2, difficulty |-> DIFFICULTY_MEDIUM, color |-> 1],
       [board |-> BoardOf(<< <<0, 0, 0, 0, 0, 0, 0, 0>>,
                           <<0, 0, 0, 0, 0, 0, 0, 0>>,
                           <<0, 0, 0, 0, 0, 0, 0, 0>>,
                           <<0, 0, 0, 0, 0, 0, 0, 0>>,
                           <<0, 0, 0, 0, 0, 0, 0, 0>>,
                           <<2, 0, 0, 0, 0, 0, 0, 0>>,
                           <<0, 0, 0, 0, 0, 0, 0, 0>>,
                           <<1, 0, 0, 0, 0, 0, 0, 0>> >>),
        current_player |-> 1, difficulty |-> DIFFICULTY_MEDIUM, color |-> 2],
       [board |-> BoardOf(<< <<0, 0, 0, 0, 0, 0, 0, 0>>,
                           <<0, 0, 0, 0, 0, 0, 0, 0>>,
                           <<0, 0, 0, 3, 0, 0, 0, 0>>,
                           <<0, 0, 0, 0, 0, 0, 1, 0>>,
                           <<0, 0, 0, 0, 0, 0, 0, 4>>,
                           <<0, 0, 0, 0, 0, 0, 0, 0>>,
                           <<0, 0, 0, 0, 0, 0, 0, 0>>,
                           <<1, 0, 0, 0, 0, 0, 0, 0>> >>),
        current_player |-> 2, difficulty |-> DIFFICULTY_MEDIUM, color |-> 1] >>

\* The game object of a game in progress.
InProgress(g) ==
    /\ ai_difficulty = g.difficulty
    /\ ai_search_depth = search_depth(g.difficulty)
    /\ player_color = g.color
    /\ ai_color = ai_color_of(g.color)
    /\ board = g.board
    /\ current_player = g.current_player
    /\ message = (IF g.current_player = 1 THEN MSG_WHITE_TURN ELSE MSG_BLACK_TURN)
    /\ selected_piece_pos = None
    /\ forced_capture_piece = None

Init ==
    /\ \/ \E color \in {WHITE, BLACK} : NewGame(DIFFICULTY_EASY, color)
       \/ \E i \in 1 .. Len(MidGames) : InProgress(MidGames[i])
    /\ last = [op |-> "init"]
    /\ moves = 0
    /\ gui = IdleGUI

\* The live fields after a committed move or a message.
Becomes(self) ==
    /\ board' = self.board
    /\ current_player' = self.current_player
    /\ forced_capture_piece' = self.forced_capture_piece
    /\ message' = self.message
    /\ UNCHANGED <<ai_difficulty, ai_search_depth, player_color, ai_color, selected_piece_pos, gui>>

\* The legal-move map is_move_valid computes in the current state.
LiveMoves == get_all_possible_moves_for_player(Self, board, current_player, forced_capture_piece)

\* The accepted move of square_clicked: make_move, then check_game_over on
\* the live game.  ret is what check_game_over returned.
move_and_check(self, start_pos, end_pos) ==
    check_game_over(make_move(self, start_pos, end_pos, None, NO_PLAYER).self, None, NO_PLAYER, None)

\* A caller's move that is_move_valid accepts, committed with make_move and
\* followed by check_game_over.
Move(start_pos, end_pos, all_valid) ==
    /\ moves < MaxMoves
    /\ is_move_valid_in(Self, start_pos, end_pos, all_valid).ok
    /\ Becomes(move_and_check(Self, start_pos, end_pos).self)
    /\ last' = [op |-> "move", start |-> start_pos, end |-> end_pos, pre |-> Core(Self), searched |-> Core(Self),
                over |-> move_and_check(Self, start_pos, end_pos).ret]
    /\ moves' = moves + 1

\* The probes a rejected call is drawn from: any start, and an end up to two
\* squares from it in each coordinate (every step and jump of a pawn, and the
\* squares around them).
Near == {0 - 2, 0 - 1, 0, 1, 2}
RejectProbes == {pr \in Probes \X Probes : pr[2][1] - pr[1][1] \in Near /\ pr[2][2] - pr[1][2] \in Near}

\* The messages is_move_valid leaves when it rejects a probe in this state.
RejectMessages(all_valid) ==
    {is_move_valid_in(Self, pr[1], pr[2], all_valid).message : pr \in {q \in RejectProbes : ~is_move_valid_in(Self, q[1], q[2], all_valid).ok}}

\* A rejection that also passes the turn.
rejected_passes_turn(self, rejection) ==
    [self EXCEPT !.message = rejection, !.current_player = Other(self.current_player)]

\* The game object after is_move_valid returned False with the message
\* rejection: each rejecting branch assigns self.message and returns.
rejected(self, rejection) == [self EXCEPT !.message = rejection]

\* A caller's move that is_move_valid rejects: only the message is written.
Reject(rejection) ==
    /\ Becomes(rejected(Self, rejection))
    /\ last' = [op |-> "reject", start |-> None, end |-> None, pre |-> Core(Self), searched |-> Core(Self), over |-> FALSE]
    /\ UNCHANGED moves

\* The end of _execute_ai_move_on_gui: while the capture goes on the AI is
\* started again, else check_game_over runs on the live game.
check_unless_chain(self) ==
    IF self.forced_capture_piece # None THEN [ret |-> FALSE, self |-> self]
    ELSE check_game_over(self, None, NO_PLAYER, None)

\* _execute_ai_move_on_gui: make_move, then the game-over check.
_execute_ai_move_on_gui(self, start_pos, end_pos) ==
    check_unless_chain(make_move(self, start_pos, end_pos, None, NO_PLAYER).self)

\* make_ai_move when get_ai_move returned no move: over is what
\* check_game_over returned.
no_ai_move(over) ==
    [ret |-> over.ret, self |-> IF over.ret THEN over.self ELSE [over.self EXCEPT !.message = MSG_AI_PROBLEM]]

\* get_ai_move, and make_move with the move it returns, followed by the
\* game-over check; ai is what get_ai_move returned and left.
AIMove(ai) ==
    /\ moves < MaxMoves
    /\ ai.ret # <<None, None>>
    /\ Becomes(_execute_ai_move_on_gui(ai.self, ai.ret[1], ai.ret[2]).self)
    /\ last' = [op |-> "ai_move", start |-> ai.ret[1], end |-> ai.ret[2], pre |-> Core(Self), searched |-> Core(ai.self),
                over |-> _execute_ai_move_on_gui(ai.self, ai.ret[1], ai.ret[2]).ret]
    /\ moves' = moves + 1

\* get_ai_move without a move to return, followed by check_game_over.
AINoMove(ai) ==
    /\ ai.ret = <<None, None>>
    /\ Becomes(no_ai_move(check_game_over(ai.self, None, NO_PLAYER, None)).self)
    /\ last' = [op |-> "ai_none", start |-> None, end |-> None, pre |-> Core(Self), searched |-> Core(ai.self),
                over |-> check_game_over(ai.self, None, NO_PLAYER, None).ret]
    /\ UNCHANGED moves

\* The game object becomes game.
Restarts(game) ==
    /\ ai_difficulty' = game.ai_difficulty
    /\ ai_search_depth' = game.ai_search_depth
    /\ player_color' = game.player_color
    /\ ai_color' = game.ai_color
    /\ board' = game.board
    /\ current_player' = game.current_player
    /\ message' = game.message
    /\ selected_piece_pos' = game.selected_piece_pos
    /\ forced_capture_piece' = game.forced_capture_piece

\* start_new_game: reset_game with the chosen difficulty and colour.  last
\* keeps what the game was like when it was reset: whether a chain was
\* pending, whether the game was over, and whose turn it was.
ResetGame(difficulty, color) ==
    /\ Restarts(reset_game(Game, difficulty, color))
    /\ last' = [op |-> "reset", chain |-> forced_capture_piece # None,
                over |-> check_game_over(Self, None, NO_PLAYER, None).ret, player |-> current_player,
                color |-> player_color, difficulty |-> ai_difficulty]
    /\ moves' = 0
    /\ UNCHANGED gui

Next ==
    \/ \E start_pos \in Pos, end_pos \in Pos : Move(start_pos, end_pos, LiveMoves)
    \/ \E rejection \in RejectMessages(LiveMoves) : Reject(rejection)
    \/ AIMove(get_ai_move(Self))
    \/ AINoMove(get_ai_move(Self))
    \/ \E color \in {WHITE, BLACK} : ResetGame(DIFFICULTY_EASY, color)

Spec == Init /\ [][Next]_vars

(***************************************************************************)
(* Properties.                                                             *)
(***************************************************************************)
\* The squares strictly between two squares of one diagonal.
Diagonal(s, e) == s # e /\ Abs(e[1] - s[1]) = Abs(e[2] - s[2])
Between(s, e) == {<<s[1] + k * Sign(e[1] - s[1]), s[2] + k * Sign(e[2] - s[2])>> : k \in 1 .. (Abs(e[1] - s[1]) - 1)}
EnemiesBetween(b, p, s, e) == {q \in Between(s, e) : is_opponent_piece(q[1], q[2], p, b)}
PiecesBetween(b, s, e) == {q \in Between(s, e) : b[q[1]][q[2]] # 0}

\* s to e is a jump of player p over exactly one enemy piece and nothing else.
JumpsEnemy(b, p, s, e) ==
    Diagonal(s, e) /\ Cardinality(EnemiesBetween(b, p, s, e)) = 1 /\ Cardinality(PiecesBetween(b, s, e)) = 1

\* A displacement of more than one square.
Displaced(s, e) == Abs(e[1] - s[1]) > 1 \/ Abs(e[2] - s[2]) > 1

\* The squares of player p's pieces, their number, and those that can capture.
Own(b, p) == {q \in Pos : is_player_piece(q[1], q[2], p, b)}
Count(b, p) == Cardinality(Own(b, p))
Capturing(b, p) == {q \in Own(b, p) : _get_captures_for_piece(q[1], q[2], b, p) # << >>}

\* The game object with no chain pending.
NoForced == [Self EXCEPT !.forced_capture_piece = None]

\* The _minimax calls get_ai_move makes in the current state.
RootCalls ==
    {root_call(Self, make_move(Self, m[1], m[2], board, current_player)) : m \in Range(candidates(Self))}

\* The score of the search call rc made on the game object self.
SearchScore(self, rc) == root_search(self, current_player, rc).score

SetMax(S) == CHOOSE x \in S : \A y \in S : y <= x
SetMin(S) == CHOOSE x \in S : \A y \in S : x <= y

\* Minimax without a window over the tree _minimax walks: the same move
\* generation, chain rule, terminal test and evaluator, every child visited.
RECURSIVE PlainMinimax(_, _, _, _, _, _)
PlainMinimax(self, b, depth, maximizing_player, current_ai_player_type, forced) ==
    LET sim_player_type == IF maximizing_player THEN current_ai_player_type ELSE Other(current_ai_player_type)
        possible == get_all_possible_moves_for_player(self, b, sim_player_type, forced)
        children == {make_move(self, m[1], m[2], b, sim_player_type) : m \in Range(Flatten(possible.moves))}
        scores == {PlainMinimax(self, mv.new_board,
                                child_depth(depth, mv.is_capture, mv.new_forced_capture_piece),
                                child_maximizing(maximizing_player, mv.is_capture, mv.new_forced_capture_piece),
                                current_ai_player_type,
                                child_forced(mv.is_capture, mv.new_forced_capture_piece)) : mv \in children}
    IN  IF depth = 0 \/ check_game_over(self, b, sim_player_type, forced).ret \/ possible.moves = << >>
        THEN _evaluate_board(b, current_ai_player_type)
        ELSE IF maximizing_player THEN SetMax(scores) ELSE SetMin(scores)

\* C1: after a validated move committed on the live game, if the move
\* captured a piece and the moved piece has a further capture from its
\* landing square on the updated board, forced_capture_piece is the landing
\* square and current_player is unchanged; in every other case
\* forced_capture_piece is None and current_player is the other player.
C1_ForcedAndTurnAfterMove ==
    last.op \in {"move", "ai_move"} =>
        LET mover == last.pre.current_player
            captured == Count(board, Other(mover)) < Count(last.pre.board, Other(mover))
            further == _get_captures_for_piece(last.end[1], last.end[2], board, mover) # << >>
        IN  IF captured /\ further
            THEN forced_capture_piece = last.end /\ current_player = mover
            ELSE forced_capture_piece = None /\ current_player = Other(mover)

\* C1 witness: a committed capture left a chain pending on its landing square.
C1_ChainPendingAfterCapture ==
    /\ last.op = "move"
    /\ Count(board, Other(last.pre.current_player)) < Count(last.pre.board, Other(last.pre.current_player))
    /\ forced_capture_piece = last.end
    /\ current_player = last.pre.current_player

\* C2: in every reachable state, when forced_capture_piece = p the cell at p
\* holds a pawn or king of current_player and that piece has a capture.
C2_ForcedPieceCanCapture ==
    forced_capture_piece # None =>
        /\ is_player_piece(forced_capture_piece[1], forced_capture_piece[2], current_player, board)
        /\ _get_captures_for_piece(forced_capture_piece[1], forced_capture_piece[2], board, current_player) # << >>

\* C2 witness: a chain is pending for a piece that was promoted by its capture.
C2_ChainPendingForKing ==
    /\ forced_capture_piece # None
    /\ board[forced_capture_piece[1]][forced_capture_piece[2]] \in {3, 4}
    /\ last.op \in {"move", "ai_move"}
    /\ last.pre.board[last.start[1]][last.start[2]] \in {1, 2}

\* C3: is_move_valid(start, end) is True exactly when end is listed for start
\* in the legal-move map of (board, current_player, forced_capture_piece);
\* every other probe, on or off the board, is rejected.
C3_ValidIffInLegalMap ==
    LET all_valid == LiveMoves
    IN  \A start_pos \in Probes, end_pos \in Probes :
            is_move_valid_in(Self, start_pos, end_pos, all_valid).ok
                <=> (start_pos \in Pos /\ end_pos \in Pos /\ InMap(all_valid.moves, start_pos, end_pos))

\* C3 witness: during a chain, a move of another piece was rejected while the
\* forced piece has a move that is accepted.
C3_RejectedDuringChain ==
    /\ last.op = "reject"
    /\ forced_capture_piece # None
    /\ message = MSG_SAME_PIECE
    /\ \E end_pos \in Pos : is_move_valid(Self, forced_capture_piece, end_pos).ok

\* C4: for every board and player with no forced piece, if some piece of the
\* player has a capture, the legal-move map lists exactly the pieces that
\* have a capture, each with exactly its capture destinations, every listed
\* move jumping an enemy piece.
C4_OnlyCapturesWhenAnyCapture ==
    \A p \in {WHITE, BLACK} :
        LET res == get_all_possible_moves_for_player(NoForced, board, p, None)
        IN  Capturing(board, p) # {} =>
                /\ Keys(res.moves) = Capturing(board, p)
                /\ Len(res.moves) = Cardinality(Capturing(board, p))
                /\ \A i \in 1 .. Len(res.moves) :
                       /\ Range(res.moves[i].ends) = Range(_get_captures_for_piece(res.moves[i].start[1], res.moves[i].start[2], board, p))
                       /\ \A e \in Range(res.moves[i].ends) : JumpsEnemy(board, p, res.moves[i].start, e)

\* C4 witness: a player has a piece that can capture and another piece that
\* could otherwise step, which the map leaves out.
C4_CaptureBesideOrdinaryMove ==
    \E p \in {WHITE, BLACK} :
        /\ Capturing(board, p) # {}
        /\ \E q \in Own(board, p) \ Capturing(board, p) : get_possible_moves(q[1], q[2], board, p).moves # << >>
        /\ \E q \in Own(board, p) \ Capturing(board, p) : q \notin Keys(get_all_possible_moves_for_player(NoForced, board, p, None).moves)

\* C5: for all boards and players, if get_all_possible_moves_for_player
\* reports its second result as true, every listed destination list is
\* non-empty and every listed move is a capture jumping an enemy piece; if it
\* reports false, no piece of the player has a capture.
C5_FlagTrueMeansCaptures ==
    \A p \in {WHITE, BLACK} :
        LET res == get_all_possible_moves_for_player(NoForced, board, p, None)
        IN  /\ res.flag => \A i \in 1 .. Len(res.moves) :
                               /\ res.moves[i].ends # << >>
                               /\ \A e \in Range(res.moves[i].ends) : JumpsEnemy(board, p, res.moves[i].start, e)
            /\ ~res.flag => Capturing(board, p) = {}

C7_SearchIgnoresLiveForcedPiece ==
    \A rc \in RootCalls :
        /\ SearchScore(Self, rc) = SearchScore(NoForced, rc)
        /\ (rc.forced = None /\ rc.depth > 0) =>
               get_all_possible_moves_for_player(Self, rc.board, Other(current_player), rc.forced).moves
                   = get_all_possible_moves_for_player(NoForced, rc.board, Other(current_player), None).moves

\* C8: make_move with an explicit board leaves that board as it was, and a
\* complete get_ai_move call leaves the live board, current_player and
\* forced_capture_piece as they were before the call.
C8_SimulationLeavesBoardAndLiveGame ==
    /\ \A m \in Range(Flatten(LiveMoves.moves)) :
           LET mv == make_move(Self, m[1], m[2], board, current_player)
           IN  mv.input = board /\ Core(mv.self) = Core(Self)
    /\ Core(get_ai_move(Self).self) = Core(Self)
    /\ last.op \in {"ai_move", "ai_none"} => last.searched = last.pre

\* C8 witness: a three-ply search ran to the end and its move was committed.
C8_DeepSearchRan ==
    /\ last.op = "ai_move"
    /\ ai_search_depth = 3
    /\ last.searched = last.pre
    /\ board # last.pre.board

\* C9: for every _minimax call get_ai_move makes (full window), the score
\* equals that of minimax without pruning over the same tree.
C9_AlphaBetaEqualsPlainMinimax ==
    \A rc \in RootCalls :
        SearchScore(Self, rc) = PlainMinimax(Self, rc.board, rc.depth, rc.maximizing_player, current_player, rc.forced)

\* C9 witness: a search call two plies deep whose score differs from the
\* static value of its board, in a position with several candidates.
C9_SearchLooksAhead ==
    /\ Cardinality(RootCalls) > 1
    /\ \E rc \in RootCalls :
           /\ rc.depth >= 2
           /\ SearchScore(Self, rc) # _evaluate_board(rc.board, current_player)

\* C10: whenever current_player has a legal move, get_ai_move returns a pair
\* of the legal-move map, which is_move_valid accepts and which, while a
\* capture is mandatory or a chain is pending, is a capture by an allowed
\* piece; it returns no move only when the legal-move map is empty.
C10_AIMoveIsLegal ==
    LET ai == get_ai_move(Self)
        all_valid == LiveMoves
    IN  /\ all_valid.moves # << >> =>
               /\ Len(ai.ret) = 2
               /\ ai.ret # <<None, None>>
               /\ InMap(all_valid.moves, ai.ret[1], ai.ret[2])
               /\ is_move_valid(Self, ai.ret[1], ai.ret[2]).ok
               /\ (forced_capture_piece # None => ai.ret[1] = forced_capture_piece)
               /\ (forced_capture_piece # None \/ Capturing(board, current_player) # {}) =>
                      JumpsEnemy(board, current_player, ai.ret[1], ai.ret[2])
        /\ ai.ret = <<None, None>> => all_valid.moves = << >>

\* C10 witness: get_ai_move chose the continuation of a pending chain, and
\* its move was committed.
C10_AIContinuedChain ==
    /\ last.op = "ai_move"
    /\ last.pre.forced_capture_piece # None
    /\ last.start = last.pre.forced_capture_piece

\* Tuple order on positions and on (start, end) pairs: start first, then
\* destination.
PosLess(a, b) == a[1] < b[1] \/ (a[1] = b[1] /\ a[2] < b[2])
PairLess(m, n) == PosLess(m[1], n[1]) \/ (m[1] = n[1] /\ PosLess(m[2], n[2]))

\* The root score of the candidate m in the game self: the value of the
\* _minimax call get_ai_move makes after simulating m.
RootScoreOf(self, m) ==
    root_search(self, self.current_player,
                root_call(self, make_move(self, m[1], m[2], self.board, self.current_player))).score

\* The candidates of the game self with the highest root score.
BestCandidates(self) ==
    LET cands == Range(candidates(self))
        scores == [m \in cands |-> RootScoreOf(self, m)]
    IN  {m \in cands : \A n \in cands : scores[n] <= scores[m]}

\* The first pair of a set in ascending order.
FirstPair(S) == CHOOSE m \in S : \A n \in S : n = m \/ PairLess(m, n)

\* The game object the last operation started from.
PreSelf ==
    [board |-> last.pre.board, current_player |-> last.pre.current_player,
     forced_capture_piece |-> last.pre.forced_capture_piece, message |-> MSG_AI_THINKING,
     ai_search_depth |-> ai_search_depth]

\* C11: get_ai_move depends on board, current_player, forced_capture_piece
\* and ai_search_depth only (the status message does not change its answer),
\* and whenever there is a candidate it returns the first one, in ascending
\* order of start and then destination, among those of highest root score.
C11_AIReturnsFirstBestCandidate ==
    LET ret == get_ai_move(Self).ret
    IN  /\ get_ai_move([Self EXCEPT !.message = MSG_AI_THINKING]).ret = ret
        /\ candidates(Self) # << >> => ret = FirstPair(BestCandidates(Self))

\* C11 witness: the AI's committed move was chosen among several candidates
\* tied for the highest root score, and it is the first of them.
C11_AIBrokeTie ==
    /\ last.op = "ai_move"
    /\ Cardinality(BestCandidates(PreSelf)) >= 2
    /\ <<last.start, last.end>> = FirstPair(BestCandidates(PreSelf))

\* The row direction a pawn moves in: White toward row 0, Black toward row 7.
Forward(piece) == IF piece = 1 THEN 0 - 1 ELSE 1

\* The ordinary destinations of the piece on q: for a pawn the empty squares
\* one step diagonally forward, for a king the empty squares of its diagonals
\* with nothing in between.
StepTargets(b, q) ==
    IF b[q[1]][q[2]] \in {1, 2}
    THEN {e \in Pos : e[1] = q[1] + Forward(b[q[1]][q[2]]) /\ Abs(e[2] - q[2]) = 1 /\ b[e[1]][e[2]] = 0}
    ELSE IF b[q[1]][q[2]] \in {3, 4}
    THEN {e \in Pos : Diagonal(q, e) /\ b[e[1]][e[2]] = 0 /\ PiecesBetween(b, q, e) = {}}
    ELSE {}

\* The capture destinations of player p's piece on q: for a pawn the empty
\* squares two steps diagonally forward behind an enemy piece, for a king the
\* empty squares of its diagonals behind exactly one piece, an enemy one.
JumpTargets(b, p, q) ==
    IF b[q[1]][q[2]] \in {1, 2}
    THEN {e \in Pos : e[1] = q[1] + 2 * Forward(b[q[1]][q[2]]) /\ Abs(e[2] - q[2]) = 2 /\ b[e[1]][e[2]] = 0
                       /\ EnemiesBetween(b, p, q, e) # {}}
    ELSE IF b[q[1]][q[2]] \in {3, 4}
    THEN {e \in Pos : b[e[1]][e[2]] = 0 /\ JumpsEnemy(b, p, q, e)}
    ELSE {}

\* Player p has a legal move on b: one of its pieces (the forced one only,
\* while a chain is pending) has a destination.
HasLegalMove(b, p, forced) ==
    \E q \in Own(b, p) : (forced = None \/ q = forced) /\ (JumpTargets(b, p, q) # {} \/ StepTargets(b, q) # {})

\* The message announcing that the opponent of player p has won.
WinnerMessage(p) == IF p = 1 THEN MSG_GAME_OVER_BLACK_WINS ELSE MSG_GAME_OVER_WHITE_WINS

\* C12: check_game_over returns True exactly when the active player has no
\* legal move and no forced-capture piece is pending, and then the message
\* names the other player as the winner; otherwise it writes nothing.  A
\* player without pieces, or with every piece blocked, has lost.  Checked for
\* the call in every reachable state and for the call made after each move.
C12_GameOverIffNoMoves ==
    LET over == check_game_over(Self, None, NO_PLAYER, None)
        lost == ~HasLegalMove(board, current_player, forced_capture_piece) /\ forced_capture_piece = None
    IN  /\ over.ret <=> lost
        /\ over.ret => over.self = [Self EXCEPT !.message = WinnerMessage(current_player)]
        /\ ~over.ret => over.self = Self
        /\ Own(board, current_player) = {} /\ forced_capture_piece = None => over.ret
        /\ last.op = "move" \/ (last.op = "ai_move" /\ forced_capture_piece = None)
               => /\ last.over <=> lost
                  /\ last.over => message = WinnerMessage(current_player)

\* C12 witness: a committed move left the player to move without a legal
\* move, and check_game_over announced the other player as the winner.
C12_GameOverAnnounced ==
    /\ last.op \in {"move", "ai_move"}
    /\ last.over
    /\ ~HasLegalMove(board, current_player, forced_capture_piece)
    /\ message = WinnerMessage(current_player)

\* C12 witness of the blocked case: the loser still has pieces.
C12_BlockedPlayerLost ==
    /\ C12_GameOverAnnounced
    /\ Own(board, current_player) # {}

\* The last operation committed a move.
Committed == last.op \in {"move", "ai_move"}

\* The piece the last committed move moved, as it stood before the move.
MovedPiece == last.pre.board[last.start[1]][last.start[2]]

\* C13: a White pawn moved to row 0, or a Black pawn moved to row 7, is a
\* king right after that move; no reachable state has a White pawn on row 0
\* or a Black pawn on row 7; and a move leaves every king a king of its
\* colour: the moved king on its landing square, the others where they were
\* unless captured.
C13_PromotionAndKingsStay ==
    /\ \A c \in Cols : board[0][c] # 1 /\ board[7][c] # 2
    /\ Committed =>
          /\ MovedPiece = 1 /\ last.end[1] = 0 => board[last.end[1]][last.end[2]] = 3
          /\ MovedPiece = 2 /\ last.end[1] = 7 => board[last.end[1]][last.end[2]] = 4
          /\ MovedPiece \in {3, 4} => board[last.end[1]][last.end[2]] = MovedPiece
          /\ \A q \in Pos : q # last.start /\ last.pre.board[q[1]][q[2]] \in {3, 4}
                               => board[q[1]][q[2]] \in {0, last.pre.board[q[1]][q[2]]}

\* C13 witness: the last move took a pawn to its far row, where it now
\* stands as a king.
C13_PawnPromoted ==
    /\ Committed
    /\ MovedPiece \in {1, 2}
    /\ last.end[1] = (IF MovedPiece = 1 THEN 0 ELSE 7)
    /\ board[last.end[1]][last.end[2]] = MovedPiece + 2

\* C13 witness of the later move: a king moved and is still a king.
C13_KingMovedAsKing ==
    /\ Committed
    /\ MovedPiece \in {3, 4}
    /\ board[last.end[1]][last.end[2]] = MovedPiece

\* The messages is_move_valid leaves when it returns False.
RejectionMessages ==
    {MSG_OUT_OF_BOARD, MSG_NOT_YOUR_PIECE, MSG_OCCUPIED, MSG_SAME_PIECE, MSG_FORCED_NOT_CAPTURE, MSG_MUST_CAPTURE, MSG_INVALID}

\* is_move_valid answers every probe, in range or not, with a boolean: a
\* probe with a coordinate off the board is rejected by the first check,
\* before any square is read, and a rejection leaves a rejection message.
EveryProbeAnswered(all_valid) ==
    \A start_pos \in Probes, end_pos \in Probes :
        /\ is_move_valid_in(Self, start_pos, end_pos, all_valid).ok \in BOOLEAN
        /\ ~(start_pos \in Pos /\ end_pos \in Pos)
               => is_move_valid_in(Self, start_pos, end_pos, all_valid) = [ok |-> FALSE, message |-> MSG_OUT_OF_BOARD]
        /\ ~is_move_valid_in(Self, start_pos, end_pos, all_valid).ok
               => is_move_valid_in(Self, start_pos, end_pos, all_valid).message \in RejectionMessages

\* C14: for every pair of coordinate pairs, off-board ones included,
\* is_move_valid returns a boolean without reading outside the board, and a
\* call that returned False left board, current_player and
\* forced_capture_piece as they were: only the message was written.
C14_RejectionChangesOnlyMessage ==
    /\ EveryProbeAnswered(LiveMoves)
    /\ last.op = "reject" => Core(Self) = last.pre /\ message \in RejectionMessages

\* C14 witness: an off-board probe was rejected, and the game stands as it
\* did before the call.
C14_OffBoardProbeRejected ==
    /\ last.op = "reject"
    /\ message = MSG_OUT_OF_BOARD
    /\ Core(Self) = last.pre

\* The game object with player p to move: the live one for the player whose
\* turn it is, and for the other player the same board with no chain pending.
GameOf(p) ==
    IF p = current_player THEN Self
    ELSE [Self EXCEPT !.current_player = p, !.forced_capture_piece = None]

\* The legal (start, end) pairs of the game self.
LegalPairs(self) ==
    Range(Flatten(get_all_possible_moves_for_player(self, self.board, self.current_player, self.forced_capture_piece).moves))

\* The simulated move and the live move agree for the pair m of the game self.
SimulationAgrees(self, m) ==
    LET sim == make_move(self, m[1], m[2], self.board, self.current_player)
        live == make_move(self, m[1], m[2], None, NO_PLAYER).self
    IN  /\ sim.new_board = live.board
        /\ sim.next_player_type = live.current_player
        /\ sim.new_forced_capture_piece = live.forced_capture_piece

\* C15: for every board, player and legal move, make_move on an explicit
\* board returns the new board, next player and continuation that make_move
\* on the live game leaves in board, current_player and
\* forced_capture_piece for the same board, move and player.
C15_SimulationEqualsLiveMove ==
    \A p \in {WHITE, BLACK} : \A m \in LegalPairs(GameOf(p)) : SimulationAgrees(GameOf(p), m)

\* C15 witness: the last committed move was a capture that goes on, and the
\* simulation of the same move from the same game returns the state it left.
C15_LiveChainMatchesSimulation ==
    /\ Committed
    /\ forced_capture_piece # None
    /\ LET sim == make_move(PreSelf, last.start, last.end, last.pre.board, last.pre.current_player)
       IN  /\ sim.new_board = board
           /\ sim.next_player_type = current_player
           /\ sim.new_forced_capture_piece = forced_capture_piece

\* While a chain is pending, the moves is_move_valid accepts, given the
\* legal-move map all_valid, are the jumps of the forced piece and no others.
OnlyForcedPieceJumps(all_valid) ==
    \A start_pos \in Pos, end_pos \in Pos :
        is_move_valid_in(Self, start_pos, end_pos, all_valid).ok
            <=> (start_pos = forced_capture_piece /\ end_pos \in JumpTargets(board, current_player, forced_capture_piece))

\* C16: while forced_capture_piece = p, is_move_valid rejects every move
\* that does not start on p and accepts from p exactly the capture
\* destinations of the piece on p; and the forced piece stays what it is
\* through every operation that is not a committed move.
C16_OnlyForcedPieceMayCapture ==
    /\ forced_capture_piece # None => OnlyForcedPieceJumps(LiveMoves)
    /\ last.op \in {"reject", "ai_none"} => forced_capture_piece = last.pre.forced_capture_piece

\* C16 witness: a chain is pending after a rejected call, another piece of
\* the player could capture or step were it not for the chain, and the
\* forced piece has a capture that is accepted.
C16_ChainHeldThroughRejection ==
    /\ last.op = "reject"
    /\ forced_capture_piece # None
    /\ forced_capture_piece = last.pre.forced_capture_piece
    /\ \E q \in Own(board, current_player) :
           q # forced_capture_piece /\ (JumpTargets(board, current_player, q) # {} \/ StepTargets(board, q) # {})
    /\ \E end_pos \in JumpTargets(board, current_player, forced_capture_piece) :
           is_move_valid_in(Self, forced_capture_piece, end_pos, LiveMoves).ok

(***************************************************************************)
(* The move generator on its own: a piece on a selected square, with drawn *)
(* contents on the squares of one of its diagonals.                        *)
(***************************************************************************)
\* Bound on the number of squares of the diagonal that hold drawn contents.
RayLen == 4

\* The four diagonal directions, and the i-th square from q in direction d.
Directions == {<<0 - 1, 0 - 1>>, <<0 - 1, 1>>, <<1, 0 - 1>>, <<1, 1>>}
RaySquare(q, d, i) == <<q[1] + d[1] * i, q[2] + d[2] * i>>

\* The squares the selected piece is drawn from: the middle, a corner, the
\* top edge and beside the right edge.
PieceSquares == {<<4, 3>>, <<7, 0>>, <<0, 5>>, <<3, 6>>}

\* The board with piece t on q and contents[i] on the i-th square from q in
\* direction d, empty elsewhere.
RayBoard(q, t, d, contents) ==
    [r \in Rows |-> [c \in Cols |->
        IF <<r, c>> = q THEN t
        ELSE IF \E i \in 1 .. RayLen : <<r, c>> = RaySquare(q, d, i)
             THEN contents[CHOOSE i \in 1 .. RayLen : <<r, c>> = RaySquare(q, d, i)]
        ELSE 0]]

\* No pawn stands on its promotion row.
NoPawnOnFarRow(b) == \A c \in Cols : b[0][c] # 1 /\ b[7][c] # 2

\* A game in which the player to move has selected its piece on q.
PieceInit ==
    /\ \E q \in PieceSquares, t \in 1 .. 4, d \in Directions, contents \in [1 .. RayLen -> 0 .. 4] :
           /\ board = RayBoard(q, t, d, contents)
           /\ NoPawnOnFarRow(board)
           /\ selected_piece_pos = q
           /\ current_player = (IF t \in {1, 3} THEN 1 ELSE 2)
    /\ player_color = current_player
    /\ ai_color = ai_color_of(current_player)
    /\ message = (IF current_player = 1 THEN MSG_WHITE_TURN ELSE MSG_BLACK_TURN)
    /\ ai_difficulty = DIFFICULTY_MEDIUM
    /\ ai_search_depth = search_depth(DIFFICULTY_MEDIUM)
    /\ forced_capture_piece = None
    /\ last = [op |-> "init"]
    /\ moves = 0
    /\ gui = IdleGUI

\* _get_captures_for_piece for the selected piece.
Captures ==
    /\ last' = [op |-> "captures",
                result |-> _get_captures_for_piece(selected_piece_pos[1], selected_piece_pos[2], board, current_player),
                reads |-> captures_reads(selected_piece_pos[1], selected_piece_pos[2], board, current_player)]
    /\ UNCHANGED <<board, current_player, forced_capture_piece, message, ai_difficulty, ai_search_depth, player_color, ai_color, selected_piece_pos, moves, gui>>

\* get_possible_moves for the selected piece.
PossibleMoves ==
    /\ last' = [op |-> "possible_moves",
                result |-> get_possible_moves(selected_piece_pos[1], selected_piece_pos[2], board, current_player),
                reads |-> possible_moves_reads(selected_piece_pos[1], selected_piece_pos[2], board, current_player)]
    /\ UNCHANGED <<board, current_player, forced_capture_piece, message, ai_difficulty, ai_search_depth, player_color, ai_color, selected_piece_pos, moves, gui>>

\* The destinations get_possible_moves lists for the selected piece.
SelectedMoves ==
    Range(get_possible_moves(selected_piece_pos[1], selected_piece_pos[2], board, current_player).moves)

\* make_move on the board, as the search calls it, for a move of the
\* selected piece to end_pos.
Executes(end_pos) ==
    /\ last' = [op |-> "make_move", end |-> end_pos,
                reads |-> make_move_reads(selected_piece_pos, end_pos, board, current_player,
                                          make_move(Self, selected_piece_pos, end_pos, board, current_player))]
    /\ UNCHANGED <<board, current_player, forced_capture_piece, message, ai_difficulty, ai_search_depth, player_color, ai_color, selected_piece_pos, moves, gui>>

PieceNext ==
    \/ Captures
    \/ PossibleMoves
    \/ \E end_pos \in SelectedMoves : Executes(end_pos)

PieceSpec == PieceInit /\ [][PieceNext]_vars

\* The selected piece.
Selected == board[selected_piece_pos[1]][selected_piece_pos[2]]

\* The steps i of the ray from q in direction d that are on the board.
OnBoard(q, d) == {i \in 1 .. 7 : RaySquare(q, d, i) \in Pos}

\* The content of the i-th square of the ray.
RayCell(b, q, d, i) == b[RaySquare(q, d, i)[1]][RaySquare(q, d, i)[2]]

\* The step of the first piece on the ray: a set with that step, or empty.
FirstPiece(b, q, d) ==
    {i \in OnBoard(q, d) : RayCell(b, q, d, i) # 0 /\ \A k \in 1 .. (i - 1) : RayCell(b, q, d, k) = 0}

\* The maximal run of empty squares directly behind step f of the ray.
RunBehind(b, q, d, f) ==
    {RaySquare(q, d, j) : j \in {i \in OnBoard(q, d) : i > f /\ \A k \in (f + 1) .. i : RayCell(b, q, d, k) = 0}}

\* The squares of the ray among the destinations in the sequence result.
OnRay(result, q, d) == {e \in Range(result) : \E i \in 1 .. 7 : e = RaySquare(q, d, i)}

\* The first piece of the ray is an enemy of player p.
EnemyFirst(b, p, q, d) ==
    \E f \in FirstPiece(b, q, d) : is_opponent_piece(RaySquare(q, d, f)[1], RaySquare(q, d, f)[2], p, b)

\* C17: for a king, on each of the four diagonals the capture destinations
\* are exactly the maximal run of empty squares directly behind the first
\* piece of the ray when that piece is an enemy, and none otherwise: none
\* when a friendly piece comes first, none when a second enemy stands
\* directly behind the first, and no square beyond the first piece that
\* follows the captured one.  No destination is listed twice.
C17_KingCapturesBehindFirstEnemy ==
    last.op = "captures" /\ Selected \in {3, 4} =>
        /\ Len(last.result) = Cardinality(Range(last.result))
        /\ \A e \in Range(last.result) : \E d \in Directions : e \in OnRay(last.result, selected_piece_pos, d)
        /\ \A d \in Directions :
               /\ OnRay(last.result, selected_piece_pos, d)
                      = (IF EnemyFirst(board, current_player, selected_piece_pos, d)
                         THEN UNION {RunBehind(board, selected_piece_pos, d, f) : f \in FirstPiece(board, selected_piece_pos, d)}
                         ELSE {})
               /\ \A f \in FirstPiece(board, selected_piece_pos, d) :
                      /\ is_player_piece(RaySquare(selected_piece_pos, d, f)[1], RaySquare(selected_piece_pos, d, f)[2], current_player, board)
                             => OnRay(last.result, selected_piece_pos, d) = {}
                      /\ f + 1 \in OnBoard(selected_piece_pos, d) /\ RayCell(board, selected_piece_pos, d, f + 1) # 0
                             => OnRay(last.result, selected_piece_pos, d) = {}
                      /\ \A j \in OnBoard(selected_piece_pos, d), k \in OnBoard(selected_piece_pos, d) :
                             f < j /\ j < k /\ RayCell(board, selected_piece_pos, d, j) # 0
                                 => RaySquare(selected_piece_pos, d, k) \notin Range(last.result)

\* C17 witness: a king captures at a distance, the enemy piece not next to
\* it, with a landing run that a further piece cuts short of the edge.
C17_KingCapturedAtDistance ==
    /\ last.op = "captures"
    /\ Selected \in {3, 4}
    /\ last.result # << >>
    /\ \E d \in Directions : \E f \in FirstPiece(board, selected_piece_pos, d) :
           /\ f > 1
           /\ \E j \in OnBoard(selected_piece_pos, d) : j > f + 1 /\ RayCell(board, selected_piece_pos, d, j) # 0
           /\ \E k \in OnBoard(selected_piece_pos, d) : k > f + 2

\* The square midway between q and a square two steps away on a diagonal.
Midway(q, e) == <<(q[1] + e[1]) \div 2, (q[2] + e[2]) \div 2>>

\* The squares two steps from q along the two diagonals of row direction dr.
TwoSteps(q, dr) == {e \in Pos : e[1] = q[1] + 2 * dr /\ (e[2] = q[2] + 2 \/ e[2] = q[2] - 2)}

\* The squares of TwoSteps(q, dr) that are empty behind an enemy of player p.
EmptyBehindEnemy(b, p, q, dr) ==
    {e \in TwoSteps(q, dr) : b[e[1]][e[2]] = 0 /\ is_opponent_piece(Midway(q, e)[1], Midway(q, e)[2], p, b)}

\* C18: for a pawn the capture destinations are exactly the squares two
\* steps away along its two forward diagonals (toward row 0 for White,
\* toward row 7 for Black) that are on the board and empty and lie behind an
\* enemy piece; none lies backward, and none is listed twice.
C18_PawnCapturesForwardOnly ==
    last.op = "captures" /\ Selected \in {1, 2} =>
        /\ Range(last.result) = EmptyBehindEnemy(board, current_player, selected_piece_pos, IF Selected = 1 THEN 0 - 1 ELSE 1)
        /\ Len(last.result) = Cardinality(Range(last.result))
        /\ \A e \in Range(last.result) :
               IF Selected = 1 THEN e[1] < selected_piece_pos[1] ELSE e[1] > selected_piece_pos[1]

\* C18 witness: a pawn has a capture, over an enemy piece on a forward
\* diagonal.
C18_PawnCaptured ==
    /\ last.op = "captures"
    /\ Selected \in {1, 2}
    /\ last.result # << >>

\* C18 witness of the backward case: an enemy piece stands diagonally behind
\* the pawn with an empty square beyond it, and the pawn has no capture.
C18_BackwardJumpNotTaken ==
    /\ last.op = "captures"
    /\ Selected \in {1, 2}
    /\ EmptyBehindEnemy(board, current_player, selected_piece_pos, IF Selected = 1 THEN 1 ELSE 0 - 1) # {}
    /\ last.result = << >>

\* C19: get_possible_moves returns, for a piece that has a capture, its
\* capture destinations and the flag true, and otherwise its ordinary
\* destinations and the flag false: for a pawn the empty squares one step
\* diagonally forward, for a king every empty square of each diagonal up to
\* the first occupied square or the edge.  No destination is listed twice.
C19_CapturesOrOrdinaryMoves ==
    last.op = "possible_moves" =>
        /\ Len(last.result.moves) = Cardinality(Range(last.result.moves))
        /\ IF JumpTargets(board, current_player, selected_piece_pos) # {}
           THEN /\ last.result.has_captures
                /\ Range(last.result.moves) = JumpTargets(board, current_player, selected_piece_pos)
           ELSE /\ ~last.result.has_captures
                /\ Range(last.result.moves) = StepTargets(board, selected_piece_pos)

\* C19 witness: the piece has a capture and an ordinary destination, and
\* only the capture is returned, with the flag true.
C19_CaptureHidesOrdinaryMove ==
    /\ last.op = "possible_moves"
    /\ last.result.has_captures
    /\ StepTargets(board, selected_piece_pos) # {}
    /\ Range(last.result.moves) \cap StepTargets(board, selected_piece_pos) = {}

\* C19 witness of the ordinary case: a king without a capture slides more
\* than one square, up to a piece on its diagonal.
C19_KingSlidesUpToPiece ==
    /\ last.op = "possible_moves"
    /\ Selected \in {3, 4}
    /\ ~last.result.has_captures
    /\ \E d \in Directions : \E f \in FirstPiece(board, selected_piece_pos, d) :
           f > 2 /\ RaySquare(selected_piece_pos, d, f - 1) \in Range(last.result.moves)

\* The dark squares: those of odd row + column.
Dark == {q \in Pos : (q[1] + q[2]) % 2 = 1}

\* The squares of board b that hold piece t.
Holding(b, t) == {q \in Pos : b[q[1]][q[2]] = t}

\* C20: the board _initialize_board produces, which every new game starts
\* from, has exactly 12 White pawns, on the dark squares of rows 5 to 7,
\* exactly 12 Black pawns, on the dark squares of rows 0 to 2, no kings, and
\* rows 3 and 4 empty.
C20_StartingLayout ==
    /\ Holding(_initialize_board, 1) = {q \in Dark : q[1] \in 5 .. 7}
    /\ Cardinality(Holding(_initialize_board, 1)) = 12
    /\ Holding(_initialize_board, 2) = {q \in Dark : q[1] \in 0 .. 2}
    /\ Cardinality(Holding(_initialize_board, 2)) = 12
    /\ Holding(_initialize_board, 3) = {} /\ Holding(_initialize_board, 4) = {}
    /\ \A q \in Pos : q[1] \in {3, 4} => _initialize_board[q[1]][q[2]] = 0
    /\ \A q \in Pos : _initialize_board[q[1]][q[2]] \in 0 .. 2
    /\ last.op = "init" /\ Count(board, WHITE) = 12 /\ Count(board, BLACK) = 12 => board = _initialize_board

\* C20 witness: a new game, its board as _initialize_board produced it,
\* with 12 pawns a side.
C20_NewGameBoard ==
    /\ last.op = "init"
    /\ board = _initialize_board
    /\ Cardinality(Holding(board, 1)) = 12
    /\ Cardinality(Holding(board, 2)) = 12

\* The game object of a new game with the given difficulty and colour.
StartOfGame(difficulty, color) ==
    [ai_difficulty |-> difficulty, ai_search_depth |-> search_depth(difficulty), player_color |-> color,
     ai_color |-> Other(color), board |-> _initialize_board, current_player |-> WHITE, message |-> MSG_WHITE_TURN,
     selected_piece_pos |-> None, forced_capture_piece |-> None]

\* C21: reset_game yields the starting board with White to move, no forced
\* piece and no selected piece, for either colour of the human, whatever the
\* game was like: checked for the call in every reachable state, with any
\* piece selected or none, and for the state each reset left.
C21_ResetYieldsNewGame ==
    /\ \A color \in {WHITE, BLACK}, sel \in Pos \cup {None} :
           /\ reset_game([Game EXCEPT !.selected_piece_pos = sel], DIFFICULTY_EASY, color) = StartOfGame(DIFFICULTY_EASY, color)
           /\ reset_game([Game EXCEPT !.selected_piece_pos = sel], DIFFICULTY_HARD, color) = StartOfGame(DIFFICULTY_HARD, color)
    /\ last.op = "reset" =>
           /\ board = _initialize_board
           /\ current_player = WHITE
           /\ forced_capture_piece = None
           /\ selected_piece_pos = None
           /\ moves = 0

\* C21 witness: the game was reset in the middle of a capture chain of
\* Black, and stands as a new game with White to move.
C21_ResetDuringChain ==
    /\ last.op = "reset"
    /\ last.chain
    /\ last.player = BLACK
    /\ board = _initialize_board /\ current_player = WHITE /\ forced_capture_piece = None

\* C21 witness: the game was reset after it was over.
C21_ResetAfterGameOver ==
    /\ last.op = "reset"
    /\ last.over
    /\ board = _initialize_board /\ current_player = WHITE /\ forced_capture_piece = None

(***************************************************************************)
(* The game set up with every difficulty and colour: construction, moves   *)
(* of either side and new games, without the search.                       *)
(***************************************************************************)
\* A difficulty name AI_SEARCH_DEPTH_MAP does not hold.
DIFFICULTY_UNKNOWN == "Ekspert"

\* The difficulty names a game is set up with.
DifficultyNames == {DIFFICULTY_EASY, DIFFICULTY_MEDIUM, DIFFICULTY_HARD, DIFFICULTY_UNKNOWN}

SetupInit ==
    /\ \E difficulty \in DifficultyNames, color \in {WHITE, BLACK} : NewGame(difficulty, color)
    /\ last = [op |-> "init"]
    /\ moves = 0
    /\ gui = IdleGUI

SetupNext ==
    \/ \E start_pos \in Pos, end_pos \in Pos : Move(start_pos, end_pos, LiveMoves)
    \/ \E difficulty \in DifficultyNames, color \in {WHITE, BLACK} : ResetGame(difficulty, color)

SetupSpec == SetupInit /\ [][SetupNext]_vars

\* C22: in every state, after construction and after any resets and moves,
\* player_color is White or Black and ai_color is the other player.
C22_AIPlaysTheOtherColor ==
    /\ player_color \in {WHITE, BLACK}
    /\ ai_color \in {WHITE, BLACK} \ {player_color}

\* C22 witness: a game played as White was reset to be played as Black, and
\* the AI now plays White.
C22_ColorsSwappedByReset ==
    /\ last.op = "reset"
    /\ last.color = WHITE
    /\ player_color = BLACK
    /\ ai_color = WHITE

\* C22 witness after a move: a move was committed in a game the human plays
\* as Black.
C22_MovePlayedAsBlack ==
    /\ last.op = "move"
    /\ player_color = BLACK
    /\ ai_color = WHITE

\* C25: after construction and after every reset, and through the moves,
\* the search depth is 1 for Easy, 3 for Medium, 5 for Hard, and 3 for a
\* difficulty name the table does not hold.
C25_DepthOfDifficulty ==
    /\ ai_difficulty = DIFFICULTY_EASY => ai_search_depth = 1
    /\ ai_difficulty = DIFFICULTY_MEDIUM => ai_search_depth = 3
    /\ ai_difficulty = DIFFICULTY_HARD => ai_search_depth = 5
    /\ ai_difficulty \notin {DIFFICULTY_EASY, DIFFICULTY_MEDIUM, DIFFICULTY_HARD} => ai_search_depth = 3

\* C25 witness: a Hard game was reset with an unrecognised difficulty name,
\* and the depth went from 5 to 3.
C25_UnknownDifficultyAfterReset ==
    /\ last.op = "reset"
    /\ last.difficulty = DIFFICULTY_HARD
    /\ ai_difficulty = DIFFICULTY_UNKNOWN
    /\ ai_search_depth = 3

\* C23: in every state reached from a new game by legal moves, every
\* non-empty cell is on a dark square: its row + column is odd.
C23_PiecesOnDarkSquares ==
    \A q \in Pos : board[q[1]][q[2]] # 0 => q \in Dark

\* C23 witness: a king has just moved more than two squares along a
\* diagonal, and it stands on a dark square.
C23_KingLandedOnDarkSquare ==
    /\ Committed
    /\ MovedPiece \in {3, 4}
    /\ Abs(last.end[1] - last.start[1]) > 2
    /\ board[last.end[1]][last.end[2]] # 0
    /\ last.end \in Dark

\* The probe reaches the look-up in the legal-move map and is absent from it.
AbsentFromMap(start_pos, end_pos, all_valid) ==
    /\ board[start_pos[1]][start_pos[2]] # 0
    /\ is_player_piece(start_pos[1], start_pos[2], current_player, board)
    /\ board[end_pos[1]][end_pos[2]] = 0
    /\ forced_capture_piece = None \/ forced_capture_piece = start_pos
    /\ ~InMap(all_valid.moves, start_pos, end_pos)

\* The reasons that tell the player a capture is required.
CaptureRequiredMessages == {MSG_MUST_CAPTURE, MSG_FORCED_NOT_CAPTURE, MSG_SAME_PIECE}

\* The reason reported for every absent probe follows capture availability.
ReasonFollowsCaptures(all_valid) ==
    \A start_pos \in Pos, end_pos \in Pos :
        AbsentFromMap(start_pos, end_pos, all_valid) =>
            /\ is_move_valid_in(Self, start_pos, end_pos, all_valid).message \in CaptureRequiredMessages
                   => Capturing(board, current_player) # {}
            /\ Capturing(board, current_player) = {}
                   => is_move_valid_in(Self, start_pos, end_pos, all_valid).message = MSG_INVALID

\* C24: when is_move_valid rejects a move as absent from the legal-move
\* map, the reason is a capture-required one only if some piece of the
\* current player has a capture, and the plain not-a-legal-destination
\* reason when no capture is available.
C24_CaptureReasonOnlyWithCapture == ReasonFollowsCaptures(LiveMoves)

\* C26: every square at which the move generator and the move executor
\* index the board, themselves or through is_player_piece and
\* is_opponent_piece, has both coordinates in 0..7: none is out of range and
\* none is negative.
C26_BoardReadsInRange ==
    last.op \in {"captures", "possible_moves", "make_move"} =>
        \A q \in last.reads : q[1] \in 0 .. 7 /\ q[2] \in 0 .. 7

\* C26 witness: a king in the corner made a capture, and the calls looked
\* at the squares of its diagonal up to the edge.
C26_CornerKingCaptured ==
    /\ last.op = "make_move"
    /\ selected_piece_pos = <<7, 0>>
    /\ Selected \in {3, 4}
    /\ Abs(last.end[1] - 7) > 1
    /\ <<0, 7>> \in last.reads

\* C26 witness for a pawn on the edge: the generator looked at one forward
\* diagonal only.
C26_EdgePawnLookedInward ==
    /\ last.op = "captures"
    /\ selected_piece_pos = <<7, 0>>
    /\ Selected = 1
    /\ last.reads = {<<7, 0>>, <<6, 1>>}

\* Whether the simulated move mv leaves a continuation for the same side.
Continues(mv) == mv.new_forced_capture_piece # None

\* The (start, end) pairs _minimax tries at a node, none at a node where it
\* returns the static evaluation.
NodePairs(self, b, depth, sim_player_type, forced) ==
    IF depth = 0 \/ check_game_over(self, b, sim_player_type, forced).ret THEN {}
    ELSE Range(Flatten(get_all_possible_moves_for_player(self, b, sim_player_type, forced).moves))

\* The side to move at a node of the search.
SimPlayer(maximizing_player, current_ai_player_type) ==
    IF maximizing_player THEN current_ai_player_type ELSE Other(current_ai_player_type)

\* The largest number of turn passes (simulated moves that leave no
\* continuation) on a path from a node of the search down to a leaf.
RECURSIVE TurnPasses(_, _, _, _, _, _)
TurnPasses(self, b, depth, maximizing_player, current_ai_player_type, forced) ==
    LET sim_player_type == SimPlayer(maximizing_player, current_ai_player_type)
        pairs == NodePairs(self, b, depth, sim_player_type, forced)
        below(mv) == (IF Continues(mv) THEN 0 ELSE 1)
                     + TurnPasses(self, mv.new_board,
                                  child_depth(depth, mv.is_capture, mv.new_forced_capture_piece),
                                  child_maximizing(maximizing_player, mv.is_capture, mv.new_forced_capture_piece),
                                  current_ai_player_type,
                                  child_forced(mv.is_capture, mv.new_forced_capture_piece))
    IN  IF pairs = {} THEN 0
        ELSE SetMax({below(make_move(self, m[1], m[2], b, sim_player_type)) : m \in pairs})

\* Whether the recursive call made for the pair m simulated as mv has the
\* arguments of the chain rule.
ChainRuleAt(depth, maximizing_player, m, mv) ==
    IF Continues(mv)
    THEN /\ child_depth(depth, mv.is_capture, mv.new_forced_capture_piece) = depth
         /\ child_maximizing(maximizing_player, mv.is_capture, mv.new_forced_capture_piece) = maximizing_player
         /\ child_forced(mv.is_capture, mv.new_forced_capture_piece) = m[2]
    ELSE /\ child_depth(depth, mv.is_capture, mv.new_forced_capture_piece) = depth - 1
         /\ child_maximizing(maximizing_player, mv.is_capture, mv.new_forced_capture_piece) = ~maximizing_player
         /\ child_forced(mv.is_capture, mv.new_forced_capture_piece) = None

\* The chain rule at every recursive call below a node of the search.
RECURSIVE ChainRuleBelow(_, _, _, _, _, _)
ChainRuleBelow(self, b, depth, maximizing_player, current_ai_player_type, forced) ==
    LET sim_player_type == SimPlayer(maximizing_player, current_ai_player_type)
        holds(m, mv) == /\ ChainRuleAt(depth, maximizing_player, m, mv)
                        /\ ChainRuleBelow(self, mv.new_board,
                                          child_depth(depth, mv.is_capture, mv.new_forced_capture_piece),
                                          child_maximizing(maximizing_player, mv.is_capture, mv.new_forced_capture_piece),
                                          current_ai_player_type,
                                          child_forced(mv.is_capture, mv.new_forced_capture_piece))
    IN  \A m \in NodePairs(self, b, depth, sim_player_type, forced) :
            holds(m, make_move(self, m[1], m[2], b, sim_player_type))

\* Whether some simulated move at or below a node leaves a continuation.
RECURSIVE ChainBelow(_, _, _, _, _, _)
ChainBelow(self, b, depth, maximizing_player, current_ai_player_type, forced) ==
    LET sim_player_type == SimPlayer(maximizing_player, current_ai_player_type)
        found(mv) == \/ Continues(mv)
                     \/ ChainBelow(self, mv.new_board,
                                   child_depth(depth, mv.is_capture, mv.new_forced_capture_piece),
                                   child_maximizing(maximizing_player, mv.is_capture, mv.new_forced_capture_piece),
                                   current_ai_player_type,
                                   child_forced(mv.is_capture, mv.new_forced_capture_piece))
    IN  \E m \in NodePairs(self, b, depth, sim_player_type, forced) :
            found(make_move(self, m[1], m[2], b, sim_player_type))

\* The candidate m of get_ai_move in the current state, simulated.
RootMove(m) == make_move(Self, m[1], m[2], board, current_player)

\* The turn passes on the longest path through the candidate simulated as mv.
RootPasses(mv, rc) ==
    (IF Continues(mv) THEN 0 ELSE 1)
    + TurnPasses(Self, rc.board, rc.depth, rc.maximizing_player, current_player, rc.forced)

\* The chain rule at the call get_ai_move makes for the candidate m.
RootRuleAt(m, mv, rc) ==
    IF Continues(mv)
    THEN rc.depth = ai_search_depth /\ rc.maximizing_player /\ rc.forced = m[2]
    ELSE rc.depth = ai_search_depth - 1 /\ ~rc.maximizing_player /\ rc.forced = None

\* C27: in the search get_ai_move runs from any state of the game, a
\* simulated move that leaves a continuation is followed by a call at the
\* same depth, with the same maximizing flag and the landing square as the
\* forced piece, and every other move by a call at depth - 1 with the
\* opposite flag and no forced piece; and no path from the root to a static
\* evaluation holds more than ai_search_depth turn passes.
C27_ChainsKeepDepthAndSide ==
    \A m \in Range(candidates(Self)) :
        /\ RootRuleAt(m, RootMove(m), root_call(Self, RootMove(m)))
        /\ ChainRuleBelow(Self, root_call(Self, RootMove(m)).board, root_call(Self, RootMove(m)).depth,
                          root_call(Self, RootMove(m)).maximizing_player, current_player,
                          root_call(Self, RootMove(m)).forced)
        /\ RootPasses(RootMove(m), root_call(Self, RootMove(m))) <= ai_search_depth

\* A candidate of get_ai_move leaves a continuation, and a path through it
\* still holds ai_search_depth turn passes.
C27_RootChainSearchedToFullDepth ==
    \E m \in Range(candidates(Self)) :
        /\ Continues(RootMove(m))
        /\ RootPasses(RootMove(m), root_call(Self, RootMove(m))) = ai_search_depth

\* A candidate that passes the turn is answered, inside the search, by a
\* move that leaves a continuation.
C27_ChainInsideSearch ==
    \E m \in Range(candidates(Self)) :
        /\ ~Continues(RootMove(m))
        /\ ChainBelow(Self, root_call(Self, RootMove(m)).board, root_call(Self, RootMove(m)).depth,
                      root_call(Self, RootMove(m)).maximizing_player, current_player,
                      root_call(Self, RootMove(m)).forced)

\* Whether the node that get_ai_move enters with the arguments rc returns the
\* static evaluation without simulating a move.
ReturnsStatic(rc) ==
    NodePairs(Self, rc.board, rc.depth, SimPlayer(rc.maximizing_player, current_player), rc.forced) = {}

\* C28: a node of the search returns the static evaluation of its board from
\* the AI player's perspective, with no move expanded and no bonus added,
\* exactly when its depth is 0 or the side to move (the AI if maximizing,
\* else its opponent) has no legal move.  Stated for the nodes get_ai_move
\* enters in the current state.
C28_StaticEvaluationExactlyAtLeaves ==
    \A rc \in RootCalls :
        /\ ReturnsStatic(rc) <=>
               (rc.depth = 0 \/ ~HasLegalMove(rc.board, SimPlayer(rc.maximizing_player, current_player), rc.forced))
        /\ ReturnsStatic(rc) => SearchScore(Self, rc) = _evaluate_board(rc.board, current_player)

\* The rows a pawn of player p standing on row r has advanced toward its
\* promotion row (row 0 for White, row 7 for Black).
Advanced(p, r) == IF p = WHITE THEN 7 - r ELSE r

\* The worth of the piece on square q to its owner p: a pawn 10 plus its
\* rows advanced, a king 30.
PieceWorth(b, p, q) == IF b[q[1]][q[2]] \in {1, 2} THEN 10 + Advanced(p, q[1]) ELSE 30

\* The sum of the worth of player p's pieces on the squares S.
RECURSIVE Worth(_, _, _)
Worth(b, p, S) ==
    IF S = {} THEN 0
    ELSE LET q == CHOOSE x \in S : TRUE IN PieceWorth(b, p, q) + Worth(b, p, S \ {q})

\* The squares holding a pawn or a king of player p.
PiecesOf(b, p) == {q \in Pos : b[q[1]][q[2]] \in {p, p + 2}}

(***************************************************************************)
(* The evaluator on its own.  The boards are the empty board and the board *)
(* of a new game with any contents on six dark squares of different rows; *)
(* _evaluate_board is applied for either perspective.                     *)
(***************************************************************************)
EvalSquares == << <<0, 1>>, <<1, 2>>, <<3, 4>>, <<4, 5>>, <<6, 7>>, <<7, 0>> >>

\* The board base with contents[i] on the i-th of EvalSquares.
EvalBoard(base, contents) ==
    [r \in Rows |-> [c \in Cols |->
        IF \E i \in 1 .. Len(EvalSquares) : EvalSquares[i] = <<r, c>>
        THEN contents[CHOOSE i \in 1 .. Len(EvalSquares) : EvalSquares[i] = <<r, c>>]
        ELSE base[r][c]]]

EvalInit ==
    /\ \E base \in {EmptyBoard, _initialize_board}, contents \in [1 .. Len(EvalSquares) -> 0 .. 4] :
           /\ board = EvalBoard(base, contents)
           /\ NoPawnOnFarRow(board)
    /\ current_player = WHITE
    /\ player_color = WHITE
    /\ ai_color = ai_color_of(WHITE)
    /\ message = MSG_WHITE_TURN
    /\ ai_difficulty = DIFFICULTY_MEDIUM
    /\ ai_search_depth = search_depth(DIFFICULTY_MEDIUM)
    /\ forced_capture_piece = None
    /\ selected_piece_pos = None
    /\ last = [op |-> "init"]
    /\ moves = 0
    /\ gui = IdleGUI

\* _evaluate_board on the board for the perspective current_ai_player_type.
Evaluates(current_ai_player_type) ==
    /\ last' = [op |-> "evaluate", player |-> current_ai_player_type,
                score |-> _evaluate_board(board, current_ai_player_type)]
    /\ UNCHANGED <<board, current_player, forced_capture_piece, message, ai_difficulty, ai_search_depth, player_color, ai_color, selected_piece_pos, moves, gui>>

EvalNext == \E current_ai_player_type \in {WHITE, BLACK} : Evaluates(current_ai_player_type)

EvalSpec == EvalInit /\ [][EvalNext]_vars

\* C29: for every board and perspective player, _evaluate_board returns the
\* sum over the perspective player's pieces of 10 plus the rows advanced
\* toward promotion (0..7) per pawn and 30 per king, minus the same sum for
\* the opponent's pieces with the opponent's direction of advance; kings get
\* no positional bonus.
C29_ScoreIsWorthDifference ==
    last.op = "evaluate" =>
        /\ last.score = Worth(board, last.player, PiecesOf(board, last.player))
                        - Worth(board, Other(last.player), PiecesOf(board, Other(last.player)))
        /\ \A q \in Pos : board[q[1]][q[2]] \in {1, 2} => PieceWorth(board, board[q[1]][q[2]], q) \in 10 .. 17
        /\ \A q \in Pos : board[q[1]][q[2]] \in {3, 4} => PieceWorth(board, board[q[1]][q[2]] - 2, q) = 30

\* A board holding pawns and kings of both players, with kings off the rows
\* the pawns start from, was evaluated for Black.
C29_KingsAndPawnsScored ==
    /\ last.op = "evaluate"
    /\ last.player = BLACK
    /\ last.score # 0
    /\ \A p \in {WHITE, BLACK} :
           /\ \E q \in PiecesOf(board, p) : board[q[1]][q[2]] = p /\ Advanced(p, q[1]) > 0
           /\ \E q \in PiecesOf(board, p) : board[q[1]][q[2]] = p + 2 /\ Advanced(p, q[1]) > 0

\* The squares other than start from which a piece of old is gone in new.
Removed(old, new, start) == {x \in Pos \ {start} : old[x[1]][x[2]] # 0 /\ new[x[1]][x[2]] = 0}

\* What a piece moved to the square e is there: the king of its colour for
\* a pawn that reached its far row, else itself.
LandsAs(piece, e) ==
    IF piece = 1 /\ e[1] = 0 THEN 3 ELSE IF piece = 2 /\ e[1] = 7 THEN 4 ELSE piece

\* What make_move did to the board old in making new of it, for the move of
\* player p from s to e: a move over an enemy piece took exactly that piece,
\* any other move took nothing; start is empty, the moved piece is on end and
\* every other square is as it was.
MoveEffect(old, new, p, s, e) ==
    /\ Diagonal(s, e)
    /\ IF EnemiesBetween(old, p, s, e) # {}
       THEN /\ \E x \in EnemiesBetween(old, p, s, e) : Removed(old, new, s) = {x}
            /\ Count(new, Other(p)) = Count(old, Other(p)) - 1
       ELSE /\ Removed(old, new, s) = {}
            /\ Count(new, Other(p)) = Count(old, Other(p))
    /\ Count(new, p) = Count(old, p)
    /\ new[s[1]][s[2]] = 0
    /\ new[e[1]][e[2]] = LandsAs(old[s[1]][s[2]], e)
    /\ \A x \in Pos \ ({s, e} \cup Removed(old, new, s)) : new[x[1]][x[2]] = old[x[1]][x[2]]

\* C30: every legal move over an enemy piece removes exactly one piece, an
\* enemy piece strictly between start and end on the diagonal, and no piece
\* of the mover; every other legal move (a pawn step or a king slide of any
\* length) removes no piece; in both cases the start cell becomes empty and
\* the moved piece (as a king, if the move promoted it) is on the end cell.
\* Stated for every legal move of every reachable state and for the move
\* that was committed.
C30_MoveTakesOneEnemyOrNothing ==
    /\ \A m \in LegalPairs(Self) :
           MoveEffect(board, make_move(Self, m[1], m[2], None, NO_PLAYER).self.board, current_player, m[1], m[2])
    /\ Committed => MoveEffect(last.pre.board, board, last.pre.current_player, last.start, last.end)

\* A king took an enemy piece standing away from it and landed beyond the
\* square right behind that piece.
C30_KingTookDistantPiece ==
    /\ Committed
    /\ MovedPiece \in {3, 4}
    /\ \E x \in Removed(last.pre.board, board, last.start) :
           /\ x \in Between(last.start, last.end)
           /\ Abs(x[1] - last.start[1]) > 1
           /\ Abs(last.end[1] - x[1]) > 1

\* A king slid more than one square and nothing was removed.
C30_KingSlidTakingNothing ==
    /\ Committed
    /\ MovedPiece \in {3, 4}
    /\ Displaced(last.start, last.end)
    /\ Removed(last.pre.board, board, last.start) = {}
    /\ board[last.end[1]][last.end[2]] = MovedPiece

(***************************************************************************)
(* The opening of a game: moves accepted by is_move_valid and committed    *)
(* with make_move, from the board of _initialize_board.  last also keeps   *)
(* the move before the last one.                                           *)
(***************************************************************************)
\* Bound on the number of moves committed from the initial board.
MaxPlies == 4

OpeningInit ==
    /\ NewGame(DIFFICULTY_EASY, WHITE)
    /\ last = [op |-> "init"]
    /\ moves = 0
    /\ gui = IdleGUI

\* The move before: what last says of it, or that there was none.
Earlier == IF last.op = "move" THEN [op |-> "move", start |-> last.start, end |-> last.end, pre |-> last.pre]
           ELSE [op |-> "init"]

\* A move that is_move_valid accepts, committed with make_move and followed
\* by check_game_over.
Plays(start_pos, end_pos, all_valid) ==
    /\ moves < MaxPlies
    /\ is_move_valid_in(Self, start_pos, end_pos, all_valid).ok
    /\ Becomes(move_and_check(Self, start_pos, end_pos).self)
    /\ last' = [op |-> "move", start |-> start_pos, end |-> end_pos, pre |-> Core(Self), searched |-> Core(Self),
                over |-> move_and_check(Self, start_pos, end_pos).ret, prev |-> Earlier]
    /\ moves' = moves + 1

OpeningNext == \E start_pos \in Pos, end_pos \in Pos : Plays(start_pos, end_pos, LiveMoves)

OpeningSpec == OpeningInit /\ [][OpeningNext]_vars

\* Two squares that touch at a corner.
Adjacent(a, b) == Abs(a[1] - b[1]) = 1 /\ Abs(a[2] - b[2]) = 1

\* On the board b, s to e is a step of a White pawn to an empty square
\* adjacent to a Black pawn.
ApproachesBlack(b, s, e) ==
    /\ b[s[1]][s[2]] = 1
    /\ b[e[1]][e[2]] = 0
    /\ e[1] = s[1] - 1 /\ Abs(e[2] - s[2]) = 1
    /\ \E x \in Holding(b, 2) : Adjacent(x, e)

\* get_all_possible_moves_for_player for Black on the game g returns the
\* moves of exactly one piece, all of them jumps over a White piece.
OneBlackCapturer(g) ==
    LET possible == get_all_possible_moves_for_player(g, g.board, BLACK, g.forced_capture_piece).moves
    IN  /\ Len(possible) = 1
        /\ possible[1].ends # << >>
        /\ \A e \in Range(possible[1].ends) : JumpsEnemy(g.board, BLACK, possible[1].start, e)

\* The forced piece and the turn after Black's capture landed on e of the
\* board b: the landing square and Black again if a further jump exists
\* from it, else None and White.
AfterBlackCapture(g, e) ==
    IF JumpTargets(g.board, BLACK, e) # {}
    THEN g.forced_capture_piece = e /\ g.current_player = BLACK
    ELSE g.forced_capture_piece = None /\ g.current_player = WHITE

\* C31 as stated: from the initial board there is a White pawn move to an
\* empty square adjacent to a Black pawn after which Black has exactly one
\* capturing piece.
C31_FirstMoveInvitesOneCapture ==
    moves = 0 =>
        \E m \in LegalPairs(Self) :
            /\ ApproachesBlack(board, m[1], m[2])
            /\ OneBlackCapturer(make_move(Self, m[1], m[2], None, NO_PLAYER).self)

\* C31 amended: in a game from the initial board, a White pawn move to an
\* empty square adjacent to a Black pawn after which
\* get_all_possible_moves_for_player for Black returns exactly one capturing
\* piece is never White's first move (both players have moved before it);
\* after each capture Black can then make, and after the one it made,
\* forced_capture_piece is the landing square if a further jump exists from
\* it and None otherwise.
C31_ApproachInvitesOneCapture ==
    /\ (last.op = "move" /\ ApproachesBlack(last.pre.board, last.start, last.end) /\ OneBlackCapturer(Self)) =>
           /\ moves >= 3
           /\ current_player = BLACK
           /\ \A m \in LegalPairs(Self) : AfterBlackCapture(make_move(Self, m[1], m[2], None, NO_PLAYER).self, m[2])
    /\ (last.op = "move" /\ last.prev.op = "move"
        /\ ApproachesBlack(last.prev.pre.board, last.prev.start, last.prev.end)
        /\ OneBlackCapturer(last.pre)) =>
           AfterBlackCapture(Self, last.end)

\* White's second move went next to a Black pawn, Black had one capturing
\* piece and has made the capture.
C31_SingleCaptureMade ==
    /\ last.op = "move"
    /\ last.prev.op = "move"
    /\ ApproachesBlack(last.prev.pre.board, last.prev.start, last.prev.end)
    /\ OneBlackCapturer(last.pre)
    /\ Count(board, WHITE) = 11
    /\ forced_capture_piece = None

\* check_game_over is true of the live game.
GameOver == check_game_over(Self, None, NO_PLAYER, None).ret

\* is_move_valid rejects every pair of squares a caller may pass, on or
\* beyond the board.
NoMoveAccepted(all_valid) ==
    \A start_pos \in Probes, end_pos \in Probes : ~is_move_valid_in(Self, start_pos, end_pos, all_valid).ok

\* C32: game over is absorbing.  In every reachable state where
\* check_game_over is true, is_move_valid rejects every move and get_ai_move
\* returns no move; and no step taken from such a state other than
\* reset_game changes the board, current_player or forced_capture_piece.
C32_GameOverIsAbsorbing ==
    /\ [](GameOver => (NoMoveAccepted(LiveMoves) /\ get_ai_move(Self).ret = <<None, None>>))
    /\ [][(GameOver /\ last'.op # "reset") => UNCHANGED <<board, current_player, forced_capture_piece>>]_vars

\* After the game was over a move was asked for and refused, or the AI was
\* asked and had none: the game stands as it did and is still over.
C32_AskedAfterGameOver ==
    /\ GameOver
    /\ last.op \in {"reject", "ai_none"}
    /\ last.over = (last.op = "ai_none")
    /\ Core(Self) = last.pre
    /\ Own(board, current_player) # {}

\* The pairs of squares is_move_valid accepts in the current state.
Accepted(all_valid) ==
    {m \in Pos \X Pos : is_move_valid_in(Self, m[1], m[2], all_valid).ok}

\* C33: no reachable state is stuck.  In every reachable state either
\* check_game_over is true or at least one move passes is_move_valid; and
\* whenever forced_capture_piece is set, the piece on it belongs to the
\* player to move, has a capture, and is_move_valid accepts exactly its
\* captures.
C33_NeverStuck ==
    /\ GameOver \/ Accepted(LiveMoves) # {}
    /\ forced_capture_piece # None =>
           /\ forced_capture_piece \in Own(board, current_player)
           /\ JumpTargets(board, current_player, forced_capture_piece) # {}
           /\ Accepted(LiveMoves) = {forced_capture_piece} \X JumpTargets(board, current_player, forced_capture_piece)
           /\ ~GameOver

\* A capture was committed and the same piece must capture again: a move of
\* it passes is_move_valid.
C33_ChainHasLegalCapture ==
    /\ Committed
    /\ forced_capture_piece = last.end
    /\ \E e \in Pos : is_move_valid(Self, forced_capture_piece, e).ok

(***************************************************************************)
(* Capture chains: games in progress in which a pawn and a king have       *)
(* several pieces to take in a row.  last counts the moves the same player *)
(* has committed in a row and keeps the number of opponent pieces on the   *)
(* board when the first of them was made.                                  *)
(***************************************************************************)
ChainGames ==
    << [board |-> BoardOf(<< <<0, 2, 0, 0, 0, 2, 0, 0>>,
                           <<0, 0, 1, 0, 0, 0, 0, 0>>,
                           <<0, 0, 0, 0, 0, 0, 0, 0>>,
                           <<0, 0, 1, 0, 1, 0, 0, 0>>,
                           <<0, 0, 0, 0, 0, 0, 0, 0>>,
                           <<0, 0, 0, 0, 0, 0, 1, 0>>,
                           <<0, 0, 0, 0, 0, 0, 0, 0>>,
                           <<1, 0, 1, 0, 0, 0, 0, 0>> >>),
        current_player |-> 2, difficulty |-> DIFFICULTY_EASY, color |-> 1],
       [board |-> BoardOf(<< <<0, 0, 0, 0, 0, 0, 0, 0>>,
                           <<0, 0, 0, 0, 2, 0, 0, 0>>,
                           <<0, 0, 0, 0, 0, 0, 0, 0>>,
                           <<0, 0, 2, 0, 0, 0, 0, 0>>,
                           <<0, 0, 0, 0, 0, 0, 0, 0>>,
                           <<0, 0, 2, 0, 0, 0, 0, 0>>,
                           <<0, 0, 0, 0, 0, 0, 0, 0>>,
                           <<3, 0, 0, 0, 1, 0, 0, 0>> >>),
        current_player |-> 1, difficulty |-> DIFFICULTY_EASY, color |-> 2] >>

\* Bound on the number of moves committed from a game in progress; a move
\* that goes on with a pending capture is not held back by it.
MaxTurns == 3

ChainInit ==
    /\ \E i \in 1 .. Len(ChainGames) : InProgress(ChainGames[i])
    /\ last = [op |-> "init"]
    /\ moves = 0
    /\ gui = IdleGUI

\* Whether the move about to be committed is by the player who committed the
\* last one.
SameMover == last.op = "move" /\ last.pre.current_player = current_player

\* A move that is_move_valid accepts, committed with make_move and followed
\* by check_game_over.
ChainMove(start_pos, end_pos, all_valid) ==
    /\ moves < MaxTurns \/ forced_capture_piece # None
    /\ is_move_valid_in(Self, start_pos, end_pos, all_valid).ok
    /\ Becomes(move_and_check(Self, start_pos, end_pos).self)
    /\ last' = [op |-> "move", start |-> start_pos, end |-> end_pos, pre |-> Core(Self), searched |-> Core(Self),
                over |-> move_and_check(Self, start_pos, end_pos).ret,
                run |-> IF SameMover THEN last.run + 1 ELSE 1,
                began |-> IF SameMover THEN last.began ELSE Count(board, Other(current_player))]
    /\ moves' = moves + 1

ChainNext == \E start_pos \in Pos, end_pos \in Pos : ChainMove(start_pos, end_pos, LiveMoves)

\* Whether ChainNext can take a step: the guard of ChainMove holds of some
\* pair of squares.
CanMove == (moves < MaxTurns \/ forced_capture_piece # None) /\ Accepted(LiveMoves) # {}

\* Weak fairness of ChainNext, written with CanMove for its enabledness and
\* with the count of moves for its steps: the player to move makes a move
\* when one is accepted.
ChainFairness == []<>(~CanMove) \/ []<><<moves' = moves + 1>>_vars

ChainSpec == ChainInit /\ [][ChainNext]_vars /\ ChainFairness

\* Every simulated move at or below a node of the search that leaves a
\* continuation leaves fewer pieces of the other side than it found.
RECURSIVE ChainsShrinkBelow(_, _, _, _, _, _)
ChainsShrinkBelow(self, b, depth, maximizing_player, current_ai_player_type, forced) ==
    LET sim_player_type == SimPlayer(maximizing_player, current_ai_player_type)
        shrinks(mv) == /\ Continues(mv) => Count(mv.new_board, Other(sim_player_type)) < Count(b, Other(sim_player_type))
                       /\ ChainsShrinkBelow(self, mv.new_board,
                                            child_depth(depth, mv.is_capture, mv.new_forced_capture_piece),
                                            child_maximizing(maximizing_player, mv.is_capture, mv.new_forced_capture_piece),
                                            current_ai_player_type,
                                            child_forced(mv.is_capture, mv.new_forced_capture_piece))
    IN  \A m \in NodePairs(self, b, depth, sim_player_type, forced) :
            shrinks(make_move(self, m[1], m[2], b, sim_player_type))

\* The search get_ai_move would start in the current state.
SearchChainsShrink ==
    ChainsShrinkBelow(Self, board, ai_search_depth, TRUE, current_player, forced_capture_piece)

PawnCapturesOntoFarRow(b, p, s, e) ==
    /\ b[s[1]][s[2]] = p
    /\ e[1] = (IF p = WHITE THEN 0 ELSE 7)
    /\ JumpsEnemy(b, p, s, e)

\* The game g after player p's pawn captured onto its far row on e: the
\* piece on e is p's king; forced_capture_piece is e and p keeps the turn
\* exactly when that king has a capture in some direction at some distance,
\* else there is no forced piece and the turn has passed.
PromotedThenContinued(g, p, e) ==
    /\ g.board[e[1]][e[2]] = p + 2
    /\ IF \E t \in Pos : g.board[t[1]][t[2]] = 0 /\ JumpsEnemy(g.board, p, e, t)
       THEN g.forced_capture_piece = e /\ g.current_player = p
       ELSE g.forced_capture_piece = None /\ g.current_player = Other(p)

\* C35: when a pawn lands on its far row by a capture it is promoted before
\* the continuation is computed: forced_capture_piece is the landing square
\* exactly when the new king has a capture, in any of the four directions
\* and at any distance, and then the turn does not pass.  Stated for every
\* such legal move of every reachable state and for the committed ones.
C35_PromotedBeforeContinuation ==
    /\ \A m \in LegalPairs(Self) :
           PawnCapturesOntoFarRow(board, current_player, m[1], m[2]) =>
               PromotedThenContinued(make_move(Self, m[1], m[2], None, NO_PLAYER).self, current_player, m[2])
    /\ (Committed /\ PawnCapturesOntoFarRow(last.pre.board, last.pre.current_player, last.start, last.end)) =>
           PromotedThenContinued(Self, last.pre.current_player, last.end)

\* A pawn captured onto its far row and, as a king, must capture again
\* backwards over a piece that does not stand next to it.
C35_NewKingMustCaptureBackwards ==
    /\ Committed
    /\ PawnCapturesOntoFarRow(last.pre.board, last.pre.current_player, last.start, last.end)
    /\ forced_capture_piece = last.end
    /\ current_player = last.pre.current_player
    /\ _get_captures_for_piece(last.end[1], last.end[2],
                               [board EXCEPT ![last.end[1]][last.end[2]] = current_player], current_player) = << >>
    /\ \E t \in JumpTargets(board, current_player, last.end) : Abs(t[1] - last.end[1]) > 2

\* A pawn captured onto its far row and the new king has nothing to take:
\* the turn has passed.
C35_NewKingHasNoCapture ==
    /\ Committed
    /\ PawnCapturesOntoFarRow(last.pre.board, last.pre.current_player, last.start, last.end)
    /\ forced_capture_piece = None
    /\ current_player # last.pre.current_player

\* C36: the evaluator is antisymmetric: for every board the score for
\* White is the negative of the score for Black, and both are 0 on the
\* board of a new game.
C36_EvaluatorAntisymmetric ==
    /\ _evaluate_board(board, WHITE) = 0 - _evaluate_board(board, BLACK)
    /\ last.op = "evaluate" => last.score = 0 - _evaluate_board(board, Other(last.player))
    /\ board = _initialize_board => _evaluate_board(board, WHITE) = 0 /\ _evaluate_board(board, BLACK) = 0

\* The board of a new game was evaluated, with the score 0.
C36_NewGameScoredZero ==
    /\ last.op = "evaluate"
    /\ board = _initialize_board
    /\ last.score = 0

\* A board with kings and pawns of both players was evaluated for White with
\* a positive score, which is the negative of Black's.
C36_UnevenBoardScored ==
    /\ last.op = "evaluate"
    /\ last.player = WHITE
    /\ last.score > 0
    /\ _evaluate_board(board, BLACK) = 0 - last.score
    /\ \A t \in 1 .. 4 : Holding(board, t) # {}

(***************************************************************************)
(* The window: clicks, the ai_timer and the delayed calls of               *)
(* _execute_ai_move_on_gui, as the event loop may order them.              *)
(***************************************************************************)
MSG_WAIT_FOR_AI == "Czekaj na ruch AI..."
MSG_OTHER_PIECE_MUST_CAPTURE == "Musisz wykonac bicie innym pionkiem!"
MSG_CANCELLED == "Anulowano wybor."
MSG_INVALID_PREFIX == "Niepoprawny ruch: "

\* chr(ord('A') + col) and 8 - row of the message that names the selected square.
ColumnLetter == <<"A", "B", "C", "D", "E", "F", "G", "H">>
RowDigit == <<"8", "7", "6", "5", "4", "3", "2", "1">>
selected_message(clicked_pos) ==
    "Wybrano pionek na polu: (" \o ColumnLetter[clicked_pos[2] + 1] \o RowDigit[clicked_pos[1] + 1] \o "). Wybierz pole docelowe."

\* "Koniec gry!" in get_message(), over the messages the program writes: the
\* two of check_game_over, alone or behind a prefix.
contains_game_over(text) ==
    \E prefix \in {"", MSG_INVALID_PREFIX, MSG_PROMOTED} :
        text \in {prefix \o MSG_GAME_OVER_WHITE_WINS, prefix \o MSG_GAME_OVER_BLACK_WINS}

\* A handler's result: the game object, the window's own state, and whether
\* make_move was called.
says(game, g, text) == [game |-> [game EXCEPT !.message = text], gui |-> g, committed |-> FALSE]
ignored(game, g) == [game |-> game, gui |-> g, committed |-> FALSE]
selects(game, g, pos) ==
    [game |-> [game EXCEPT !.selected_piece_pos = pos], gui |-> [g EXCEPT !.selected_square = pos], committed |-> FALSE]

\* square_clicked with nothing selected and no capture to continue; all is
\* what get_all_possible_moves_for_player returned.
first_click(game, g, clicked_pos, all) ==
    IF is_player_piece(clicked_pos[1], clicked_pos[2], game.player_color, game.board)
    THEN IF all.flag /\ clicked_pos \notin Keys(all.moves)
         THEN says(game, g, MSG_OTHER_PIECE_MUST_CAPTURE)
         ELSE says(selects(game, g, clicked_pos).game, selects(game, g, clicked_pos).gui, selected_message(clicked_pos))
    ELSE says(game, g, MSG_NOT_YOUR_PIECE)

\* square_clicked after make_move and check_game_over, whose result is over:
\* the selection is dropped or follows the capturing piece, and the ai_timer
\* is started when the turn has passed to the AI.
after_click_move(over, g) ==
    IF over.ret
    THEN [game |-> [over.self EXCEPT !.selected_piece_pos = None], gui |-> [g EXCEPT !.selected_square = None], committed |-> TRUE]
    ELSE IF over.self.forced_capture_piece # None
    THEN [game |-> [over.self EXCEPT !.selected_piece_pos = over.self.forced_capture_piece],
          gui |-> [g EXCEPT !.selected_square = over.self.forced_capture_piece], committed |-> TRUE]
    ELSE [game |-> [over.self EXCEPT !.selected_piece_pos = None],
          gui |-> [g EXCEPT !.selected_square = None,
                            !.ai_timer = IF over.self.current_player = over.self.ai_color THEN TRUE ELSE @],
          committed |-> TRUE]

\* square_clicked with a piece selected; valid is what is_move_valid returned
\* and left as the message.
second_click(game, g, clicked_pos, valid) ==
    IF valid.ok THEN after_click_move(move_and_check(game, game.selected_piece_pos, clicked_pos), g)
    ELSE says(game, g, MSG_INVALID_PREFIX \o valid.message)

\* square_clicked that answers every click while the AI is to move like a
\* click of the human's turn.
square_clicked_any_turn(game, g, clicked_pos) ==
    IF contains_game_over(game.message) THEN ignored(game, g)
    ELSE IF game.forced_capture_piece # None /\ g.selected_square = None
    THEN IF clicked_pos = game.forced_capture_piece THEN selects(game, g, clicked_pos)
         ELSE says(game, g, MSG_SAME_PIECE)
    ELSE IF g.selected_square = None
    THEN first_click(game, g, clicked_pos, get_all_possible_moves_for_player(game, game.board, game.player_color, None))
    ELSE IF clicked_pos = game.selected_piece_pos
    THEN says(selects(game, g, None).game, selects(game, g, None).gui, MSG_CANCELLED)
    ELSE IF game.selected_piece_pos = None THEN ignored(game, g)
    ELSE second_click(game, g, clicked_pos, is_move_valid(game, game.selected_piece_pos, clicked_pos))

\* square_clicked.  A click after the game-over message or while the AI is
\* to move returns early; is_move_valid unpacks start_pos, so with a square
\* selected and selected_piece_pos None the handler raises and nothing is
\* written.
square_clicked(game, g, clicked_pos) ==
    IF contains_game_over(game.message) THEN ignored(game, g)
    ELSE IF game.current_player # game.player_color THEN says(game, g, MSG_WAIT_FOR_AI)
    ELSE IF game.forced_capture_piece # None /\ g.selected_square = None
    THEN IF clicked_pos = game.forced_capture_piece THEN selects(game, g, clicked_pos)
         ELSE says(game, g, MSG_SAME_PIECE)
    ELSE IF g.selected_square = None
    THEN first_click(game, g, clicked_pos, get_all_possible_moves_for_player(game, game.board, game.player_color, None))
    ELSE IF clicked_pos = game.selected_piece_pos
    THEN says(selects(game, g, None).game, selects(game, g, None).gui, MSG_CANCELLED)
    ELSE IF game.selected_piece_pos = None THEN ignored(game, g)
    ELSE second_click(game, g, clicked_pos, is_move_valid(game, game.selected_piece_pos, clicked_pos))

\* make_ai_move up to its first processEvents: the turn test and the message.
ai_timer_timeout(game, g) ==
    IF game.current_player = game.ai_color
    THEN [game |-> [game EXCEPT !.message = MSG_AI_THINKING], gui |-> [g EXCEPT !.ai_timer = FALSE, !.pc = "thinking"]]
    ELSE [game |-> game, gui |-> [g EXCEPT !.ai_timer = FALSE]]

\* make_ai_move from get_ai_move, whose result is ai, to its second
\* processEvents, or to its end when there is no move.  The chosen move
\* remembers the game and the position it was computed in.
ai_has_chosen(game, g, ai) ==
    IF ai.ret # <<None, None>>
    THEN [game |-> [ai.self EXCEPT !.selected_piece_pos = ai.ret[1]],
          gui |-> [g EXCEPT !.selected_square = ai.ret[1], !.pc = "chosen",
                            !.chosen = [start |-> ai.ret[1], end |-> ai.ret[2], game |-> g.game, on |-> Core(game)]]]
    ELSE [game |-> no_ai_move(check_game_over(ai.self, None, NO_PLAYER, None)).self, gui |-> [g EXCEPT !.pc = "idle"]]

\* QTimer.singleShot(500, ...) of make_ai_move, and its return.
single_shot(g) == [g EXCEPT !.shots = Append(@, g.chosen), !.chosen = None, !.pc = "idle"]

\* The rest of _execute_ai_move_on_gui after make_move left the game made.
after_ai_move(made, g) ==
    IF made.forced_capture_piece # None
    THEN [game |-> [made EXCEPT !.selected_piece_pos = made.forced_capture_piece],
          gui |-> [g EXCEPT !.selected_square = made.forced_capture_piece, !.ai_timer = TRUE]]
    ELSE [game |-> [check_game_over(made, None, NO_PLAYER, None).self EXCEPT !.selected_piece_pos = None],
          gui |-> [g EXCEPT !.selected_square = None]]

\* The delayed call of _execute_ai_move_on_gui(start_pos, end_pos): make_move
\* without a test of the turn or of the move.
delayed_call(game, g, shot) ==
    after_ai_move(make_move(game, shot.start, shot.end, None, NO_PLAYER).self, [g EXCEPT !.shots = Tail(@)])

\* start_new_game: ai_timer.stop(), reset_game, the selection dropped, and
\* the ai_timer started when the AI moves first.  The delayed calls are not
\* the ai_timer's and stay scheduled.
start_new_game(game, g, difficulty, color) ==
    [game |-> reset_game(game, difficulty, color),
     gui |-> [g EXCEPT !.selected_square = None,
                       !.ai_timer = (reset_game(game, difficulty, color).current_player = reset_game(game, difficulty, color).ai_color),
                       !.game = @ + 1]]

\* Committed moves of one run, and games started in it.
MaxGuiMoves == 2
MaxGames == 1

\* The games in progress the window is followed from: one with a capture
\* for the human, and two that are a move from their end.
GuiGames == {1, 3, 5}

\* The window of a game in progress: the ai_timer runs when the AI is to move.
GuiInit ==
    /\ \/ NewGame(DIFFICULTY_EASY, WHITE)
       \/ \E i \in GuiGames : InProgress(MidGames[i])
    /\ gui = [IdleGUI EXCEPT !.ai_timer = (current_player = ai_color)]
    /\ last = [op |-> "init"]
    /\ moves = 0

\* What last keeps of the game a handler found: the game without the
\* selection (a committed move keeps its squares) and without the status
\* text, unless the text says the game is over.
Before(game) ==
    [game EXCEPT !.message = IF contains_game_over(@) THEN @ ELSE "", !.selected_piece_pos = None]

\* The handler left the game and the window as in r.
Shows(r) ==
    /\ Restarts(r.game)
    /\ gui' = r.gui

\* A click on a square.
Click(clicked_pos, r) ==
    /\ moves < MaxGuiMoves \/ ~r.committed
    /\ Shows(r)
    /\ last' = [op |-> "click", start |-> IF r.committed THEN selected_piece_pos ELSE None,
                end |-> IF r.committed THEN clicked_pos ELSE None, pre |-> Before(Game), committed |-> r.committed,
                game |-> gui.game]
    /\ moves' = IF r.committed THEN moves + 1 ELSE moves

\* The ai_timer's timeout.  A timeout that falls due while make_ai_move is
\* inside processEvents is delivered after it has returned.
AITimerFires ==
    /\ gui.ai_timer
    /\ gui.pc = "idle"
    /\ Shows(ai_timer_timeout(Game, gui))
    /\ last' = [op |-> "timeout", pre |-> Before(Game), committed |-> FALSE, game |-> gui.game]
    /\ UNCHANGED moves

\* make_ai_move goes on after its first processEvents.
AIThinks ==
    /\ gui.pc = "thinking"
    /\ Shows(ai_has_chosen(Game, gui, get_ai_move(Game)))
    /\ last' = [op |-> "think", pre |-> Before(Game), committed |-> FALSE, game |-> gui.game]
    /\ UNCHANGED moves

\* make_ai_move goes on after its second processEvents.
AISchedules ==
    /\ gui.pc = "chosen"
    /\ gui' = single_shot(gui)
    /\ last' = [op |-> "schedule", pre |-> Before(Game), committed |-> FALSE, game |-> gui.game]
    /\ UNCHANGED <<board, current_player, forced_capture_piece, message, ai_difficulty, ai_search_depth, player_color, ai_color, selected_piece_pos, moves>>

\* The oldest delayed call runs.
ShotFires ==
    /\ gui.shots # << >>
    /\ moves < MaxGuiMoves
    /\ Shows(delayed_call(Game, gui, Head(gui.shots)))
    /\ last' = [op |-> "shot", start |-> Head(gui.shots).start, end |-> Head(gui.shots).end, pre |-> Before(Game), committed |-> TRUE,
                game |-> gui.game, computed_in |-> Head(gui.shots).game, on |-> Head(gui.shots).on]
    /\ moves' = moves + 1

\* The new-game dialog is accepted.
StartsNewGame(difficulty, color) ==
    /\ gui.game < MaxGames
    /\ Shows(start_new_game(Game, gui, difficulty, color))
    /\ last' = [op |-> "new_game", pre |-> Before(Game), committed |-> FALSE, game |-> gui.game]
    /\ moves' = 0

GuiNext ==
    \/ \E clicked_pos \in Pos : Click(clicked_pos, square_clicked(Game, gui, clicked_pos))
    \/ AITimerFires
    \/ AIThinks
    \/ AISchedules
    \/ ShotFires
    \/ \E color \in {WHITE, BLACK} : StartsNewGame(DIFFICULTY_EASY, color)

GuiSpec == GuiInit /\ [][GuiNext]_vars

\* C37: a delayed call of _execute_ai_move_on_gui runs in the game in which
\* get_ai_move chose its move: no move chosen before start_new_game is
\* applied after it.
C37_AIMoveStaysInItsGame ==
    last.op = "shot" => last.computed_in = last.game

\* A move chosen in an earlier game was applied to the untouched starting
\* position of a new game while the human, playing White, was to move: a
\* black pawn has moved and the turn has passed to the AI, whose timer is
\* not running.
C37_StaleMoveOnNewBoard ==
    /\ last.op = "shot"
    /\ last.computed_in < last.game
    /\ last.pre.board = _initialize_board
    /\ last.pre.current_player = last.pre.player_color
    /\ board # _initialize_board
    /\ current_player = ai_color
    /\ ~gui.ai_timer

\* The click came while the AI was to move or after the game-over message.
ClickOutOfTurn ==
    /\ last.op = "click"
    /\ last.pre.current_player = last.pre.ai_color \/ contains_game_over(last.pre.message)

\* C38: a click while current_player is the AI's colour, or after the
\* game-over message, changes neither board, current_player nor
\* forced_capture_piece; a move a click commits is a legal move of the human
\* in the state it is applied to, and is applied as make_move applies it; and
\* until a new game is started no move is committed on the human's turn
\* except by such a click.
C38_ClicksOnlyMoveForTheHuman ==
    /\ ClickOutOfTurn => (~last.committed /\ Core(Self) = Core(last.pre))
    /\ (last.op = "click" /\ last.committed) =>
           /\ last.pre.current_player = last.pre.player_color
           /\ <<last.start, last.end>> \in LegalPairs(last.pre)
           /\ Core(Self) = Core(move_and_check(last.pre, last.start, last.end).self)
    /\ (gui.game = 0 /\ last.op # "init" /\ last.committed /\ last.pre.current_player = last.pre.player_color) =>
           last.op = "click"

\* C38 witness: a click while the AI was to move, its chosen piece selected
\* and its chosen move waiting in a delayed call.
C38_ClickWhileAIMoveWaits ==
    /\ ClickOutOfTurn
    /\ gui.shots # << >>
    /\ selected_piece_pos # None
    /\ message = MSG_WAIT_FOR_AI

\* C38 witness: a click after the game-over message.
C38_ClickAfterGameOver ==
    /\ last.op = "click"
    /\ contains_game_over(last.pre.message)

\* C38 witness: a click committed a capture of the human that goes on.
C38_HumanCaptureCommitted ==
    /\ last.op = "click"
    /\ last.committed
    /\ forced_capture_piece # None

====
